---- MODULE Spec2Model ----
(***************************************************************************)
(* A model of the Virbras signal library (src/cpp/signal): the stream      *)
(* adapters, the tapped delay line, the comb filters, the series/parallel  *)
(* combiners, the MIMO IIR filter, the DFT / overlap-add convolvers and    *)
(* the freeverb factory.                                                   *)
(*                                                                         *)
(* Scalars (ScalarType = double in the filters) are exact rationals        *)
(* <<n, d>> in lowest terms with d > 0; indexes are the code's 0-based     *)
(* indexes, so element k of a std::vector v is v[k + 1] here.              *)
(*                                                                         *)
(* Each driver (a process member function, or a harness that calls next)   *)
(* has its own specification over the same variables:                      *)
(*   filt   the filter object being driven                                 *)
(*   srcs   the input streams  (sequence of [input, iterator])             *)
(*   sinks  the output streams (sequence of output vectors)                *)
(*   pc     the position of the driver                                     *)
(*   cnt    the driver's loop counter                                      *)
(*   ntr    the number of flush samples the driver was asked for           *)
(*   log    history of the calls made to next (not program state)          *)
(***************************************************************************)
EXTENDS Integers, Sequences, FiniteSets, TLC

VARIABLES filt, srcs, sinks, pc, cnt, ntr, log

vars == <<filt, srcs, sinks, pc, cnt, ntr, log>>

----------------------------------------------------------------------------
(* Bounds of the model *)

MaxLen == 3

MaxCoeff == 1

MaxDelay == 2

MaxTransients == 4

MaxWindow == 3

MaxFilter == 3

MaxRuns == 2

MaxVecLen == 2

MaxFlush == 1

MaxUnits == 2

MaxExtraReads == 2

----------------------------------------------------------------------------
(* Exact rational arithmetic standing for ScalarType *)

Abs(n) == IF n < 0 THEN -n ELSE n

RECURSIVE Gcd(_, _)
Gcd(a, b) == IF b = 0 THEN a ELSE Gcd(b, a % b)

QNorm(n, d) ==
  LET s == IF d < 0 THEN -1 ELSE 1
      g == Gcd(Abs(n), Abs(d))
  IN  <<(s * n) \div g, (s * d) \div g>>

Q(n) == <<n, 1>>

QZero == Q(0)

QAdd(a, b) == QNorm(a[1] * b[2] + b[1] * a[2], a[2] * b[2])

QMul(a, b) == QNorm(a[1] * b[1], a[2] * b[2])

QNeg(a) == <<-a[1], a[2]>>

QAbsLess1(a) == Abs(a[1]) < a[2]

Zeros(n) == [k \in 1..n |-> QZero]

RECURSIVE SeqMax(_)
SeqMax(s) ==
  IF s = <<>> THEN 0
  ELSE LET m == SeqMax(Tail(s)) IN IF Head(s) > m THEN Head(s) ELSE m

(* All sequences over S of length 0..n *)
SeqsUpTo(S, n) == UNION {[1..k -> S] : k \in 0..n}

----------------------------------------------------------------------------
(* signal_stream.hpp: STLVectorInputSignal / STLVectorOutputSignal *)

(* reads counts the calls of read_next (history, not program state) *)
STLVectorInputSignal(input) == [input |-> input, iterator |-> 0, reads |-> 0]

(* Mutant: the iterator goes back to begin() when the end is reported *)
ReadNextRewinding(s) ==
  IF s.iterator = Len(s.input)
  THEN [stream |-> [s EXCEPT !.iterator = 0, !.reads = @ + 1],
        has |-> FALSE, value |-> QZero]
  ELSE [stream |-> [s EXCEPT !.iterator = @ + 1, !.reads = @ + 1],
        has |-> TRUE, value |-> s.input[s.iterator + 1]]

(* read_next: the stream after the call and the optional it returns *)
ReadNext(s) ==
  IF s.iterator = Len(s.input)
  THEN [stream |-> [s EXCEPT !.reads = @ + 1], has |-> FALSE, value |-> QZero]
  ELSE [stream |-> [s EXCEPT !.iterator = @ + 1, !.reads = @ + 1],
        has |-> TRUE, value |-> s.input[s.iterator + 1]]

WriteNext(output, value) == Append(output, value)

----------------------------------------------------------------------------
(* tapped_delay_line.hpp *)

TappedDelayLine(delays, coeffs) ==
  [kind |-> "tdl", delays |-> delays, coeffs |-> coeffs,
   buffer |-> Zeros(SeqMax(delays)), buffer_idx |-> 0]

(* One tap of the loop in next: coeff * buffer[idx] *)
TDLTapIndex(t, delay) ==
  LET idx == t.buffer_idx - delay
  IN  IF idx < 0 THEN idx + Len(t.buffer) ELSE idx

RECURSIVE TDLTapSum(_, _, _)
TDLTapSum(t, i, acc) ==
  IF i > Len(t.delays) THEN acc
  ELSE TDLTapSum(t, i + 1,
         QAdd(acc, QMul(t.coeffs[i + 1], t.buffer[TDLTapIndex(t, t.delays[i]) + 1])))

(* next on an empty buffer writes buffer[0] of an empty vector and takes   *)
(* buffer_idx % 0: its behaviour is undefined.                             *)
TDLNextDefined(t) == Len(t.buffer) > 0

TDLNext(t, x) ==
  IF ~TDLNextDefined(t) THEN [unit |-> t, y |-> QZero, ub |-> TRUE]
  ELSE
  [unit |-> [t EXCEPT !.buffer[t.buffer_idx + 1] = x,
                     !.buffer_idx = (t.buffer_idx + 1) % Len(t.buffer)],
   y    |-> TDLTapSum(t, 1, QMul(t.coeffs[1], x)),
   ub   |-> FALSE]

----------------------------------------------------------------------------
(* TappedDelayLine::process driven on a vector source and a vector sink *)

Scalars == {Q(n) : n \in -MaxCoeff..MaxCoeff}

Samples == {Q(1), Q(2)}

TDLInit ==
  \E delays \in SeqsUpTo(0..MaxDelay, 2) :
    \E coeffs \in [1..(Len(delays) + 1) -> Scalars] :
      \E x \in SeqsUpTo(Samples, MaxLen) :
        /\ filt = TappedDelayLine(delays, coeffs)
        /\ srcs = <<STLVectorInputSignal(x)>>
        /\ sinks = <<(<<>>)>>
        /\ pc = "read"
        /\ cnt = 0
        /\ ntr = SeqMax(delays)
        /\ log = <<>>

(* One iteration of the while loop: read_next, break or write_next(next) *)
TDLProcessRead ==
  /\ pc = "read"
  /\ LET r == ReadNext(srcs[1])
         n == TDLNext(filt, r.value)
     IN  /\ srcs' = <<r.stream>>
         /\ IF ~r.has
            THEN /\ pc' = "flush"
                 /\ UNCHANGED <<filt, sinks, log>>
            ELSE IF n.ub
            THEN /\ pc' = "undefined"
                 /\ UNCHANGED <<filt, sinks, log>>
            ELSE /\ filt' = n.unit
                 /\ sinks' = <<WriteNext(sinks[1], n.y)>>
                 /\ log' = Append(log, r.value)
                 /\ pc' = "read"
  /\ UNCHANGED <<cnt, ntr>>

(* One iteration of the for loop over max_delay = buffer.size() *)
TDLProcessFlush ==
  /\ pc = "flush"
  /\ IF cnt < ntr
     THEN LET n == TDLNext(filt, QZero)
          IN  /\ filt' = n.unit
              /\ sinks' = <<WriteNext(sinks[1], n.y)>>
              /\ log' = Append(log, QZero)
              /\ cnt' = cnt + 1
              /\ pc' = "flush"
     ELSE /\ pc' = "done"
          /\ UNCHANGED <<filt, sinks, log, cnt>>
  /\ UNCHANGED <<srcs, ntr>>

TDLNextStep == TDLProcessRead \/ TDLProcessFlush

SpecTDL == TDLInit /\ [][TDLNextStep]_vars

----------------------------------------------------------------------------
(* The FIR difference equation of the file comment of tapped_delay_line.hpp *)

XAt(x, n) == IF n >= 0 /\ n < Len(x) THEN x[n + 1] ELSE QZero

RECURSIVE FIRSum(_, _, _, _, _)
FIRSum(delays, coeffs, x, n, i) ==
  IF i > Len(delays) THEN QZero
  ELSE QAdd(QMul(coeffs[i + 1], XAt(x, n - delays[i])),
            FIRSum(delays, coeffs, x, n, i + 1))

FIROutput(delays, coeffs, x, n) ==
  QAdd(QMul(coeffs[1], XAt(x, n)), FIRSum(delays, coeffs, x, n, 1))

(* C1: process emits len(x) + max(delays) samples, and the n-th emitted     *)
(* sample is b_0*x[n] + sum_i b_i*x[n - M_i], for all non-negative delays  *)
(* (stated here for the lines whose buffer is not empty).                  *)
C1_TDLConvolution ==
  Len(filt.buffer) > 0 =>
  /\ \A n \in 1..Len(sinks[1]) :
       sinks[1][n] = FIROutput(filt.delays, filt.coeffs, srcs[1].input, n - 1)
  /\ pc = "done" =>
       Len(sinks[1]) = Len(srcs[1].input) + SeqMax(filt.delays)

(* C19: the ring buffer has capacity max(delays), and capacity 1 when the   *)
(* delay list is empty or holds only zeros; the write index is a valid     *)
(* slot of the buffer after construction and after every advance, and no   *)
(* advance takes a modulo by zero.                                         *)
C19_TDLBufferCapacity ==
  /\ Len(filt.buffer) = (IF SeqMax(filt.delays) = 0 THEN 1 ELSE SeqMax(filt.delays))
  /\ filt.buffer_idx \in 0..(Len(filt.buffer) - 1)
  /\ pc # "undefined"

----------------------------------------------------------------------------
(* fft_processing.hpp: DFTConvolver                                        *)
(*                                                                         *)
(* Samples handed to the convolver are integer-valued doubles.  A complex  *)
(* number of a length-N transform (N a power of two, N >= 2) is an element *)
(* of Z[w], w = exp(2*pi*i/N): the tuple <<c_0, ..., c_(N/2-1)>> stands    *)
(* for sum_j c_j * w^j, and w^(N/2) = -1.  The transforms are therefore    *)
(* computed exactly, as FFTW defines them (both unnormalised).             *)

RECURSIVE BitCeil(_)
BitCeil(n) == IF n <= 1 THEN 1 ELSE 2 * BitCeil((n + 1) \div 2)

CDim(N) == IF N = 1 THEN 1 ELSE N \div 2

CZero(N) == [j \in 1..CDim(N) |-> 0]

CReal(N, r) == [j \in 1..CDim(N) |-> IF j = 1 THEN r ELSE 0]

CAdd(a, b) == [j \in 1..Len(a) |-> a[j] + b[j]]

(* a * w^k, for 0 <= k < N *)
CRot(a, k) ==
  LET H == Len(a)
  IN  [j \in 1..H |->
         LET src == (j - 1 - k) % (2 * H)
         IN  IF src < H THEN a[src + 1] ELSE -a[src - H + 1]]

CScale(a, r) == [j \in 1..Len(a) |-> r * a[j]]

RECURSIVE CMulFrom(_, _, _)
CMulFrom(a, b, j) ==
  IF j > Len(a) THEN [k \in 1..Len(a) |-> 0]
  ELSE CAdd(CScale(CRot(b, j - 1), a[j]), CMulFrom(a, b, j + 1))

(* (a + bi)(c + di) = (ac - bd) + (ad + bc)i *)
CMul(a, b) == CMulFrom(a, b, 1)

CConj(a) ==
  LET H == Len(a)
  IN  [j \in 1..H |-> IF j = 1 THEN a[1] ELSE -a[H - j + 2]]

RECURSIVE R2CSum(_, _, _)
R2CSum(in, k, n) ==
  LET N == Len(in)
  IN  IF n >= N THEN CZero(N)
      ELSE CAdd(CRot(CReal(N, in[n + 1]), (N - ((n * k) % N)) % N),
                R2CSum(in, k, n + 1))

(* fftw_plan_dft_r2c_1d: X[k] = sum_n in[n] * w^(-n*k), k = 0..N/2; the    *)
(* rest of the complex array is not written (shown here as zero).          *)
FFTW_R2C(in) ==
  LET N == Len(in)
  IN  [k \in 1..N |-> IF k - 1 <= N \div 2 THEN R2CSum(in, k - 1, 0) ELSE CZero(N)]

C2RAt(X, k) ==
  LET N == Len(X)
  IN  IF k <= N \div 2 THEN X[k + 1] ELSE CConj(X[N - k + 1])

RECURSIVE C2RSum(_, _, _)
C2RSum(X, n, k) ==
  LET N == Len(X)
  IN  IF k >= N THEN CZero(N)
      ELSE CAdd(CRot(C2RAt(X, k), (n * k) % N), C2RSum(X, n, k + 1))

(* fftw_plan_dft_c2r_1d: out[n] = sum_k X[k] * w^(n*k) with the upper half *)
(* of X taken as the conjugate of the lower half; no 1/N factor.           *)
FFTW_C2R(X) == [n \in 1..Len(X) |-> C2RSum(X, n - 1, 0)[1]]

DFTConvolver(input_size, filter_coeffs) ==
  LET filter_size == Len(filter_coeffs)
      output_size == input_size + filter_size - 1
      num_fft     == BitCeil(output_size)
  IN  [input_size  |-> input_size,
       filter_size |-> filter_size,
       output_size |-> output_size,
       num_fft     |-> num_fft,
       input       |-> [n \in 1..num_fft |-> 0],
       output      |-> [n \in 1..num_fft |-> 0],
       input_freq  |-> [n \in 1..num_fft |-> CZero(num_fft)],
       filter_freq |-> FFTW_R2C([n \in 1..num_fft |->
                          IF n <= filter_size THEN filter_coeffs[n] ELSE 0])]

FreqMultiply(a, b) == CMul(a, b)

run_filter(c) ==
  LET fwd  == FFTW_R2C(c.input)
      prod == [i \in 1..c.num_fft |-> FreqMultiply(fwd[i], c.filter_freq[i])]
  IN  [c EXCEPT !.input_freq = prod, !.output = FFTW_C2R(prod)]

----------------------------------------------------------------------------
(* A caller of DFTConvolver, as run_dft_convolver_tests: write x into      *)
(* input[0..input_size), call run_filter, read output[0..output_size).     *)
(* log keeps the filter coefficients the convolver was built from.         *)

SampleInts == {1, 2}

FilterInts == {-1, 1, 3}

Filters == UNION {[1..k -> FilterInts] : k \in 1..MaxFilter}

DFTInit ==
  \E input_size \in 1..MaxWindow, h \in Filters :
    /\ filt = DFTConvolver(input_size, h)
    /\ srcs = <<[n \in 1..input_size |-> 0]>>
    /\ sinks = <<>>
    /\ pc = "load"
    /\ cnt = 0
    /\ ntr = 0
    /\ log = h

DFTLoad ==
  /\ pc = "load"
  /\ cnt < MaxRuns
  /\ \E x \in [1..filt.input_size -> SampleInts] :
       /\ filt' = [filt EXCEPT !.input =
                     [n \in 1..filt.num_fft |->
                        IF n <= filt.input_size THEN x[n] ELSE filt.input[n]]]
       /\ srcs' = <<x>>
  /\ pc' = "run"
  /\ UNCHANGED <<sinks, cnt, ntr, log>>

DFTRunFilter ==
  /\ pc = "run"
  /\ filt' = run_filter(filt)
  /\ pc' = "load"
  /\ cnt' = cnt + 1
  /\ UNCHANGED <<srcs, sinks, ntr, log>>

DFTNextStep == DFTLoad \/ DFTRunFilter

SpecDFT == DFTInit /\ [][DFTNextStep]_vars

(* Linear convolution of integer sequences: conv(h, x)[i] = sum_k h[k]*x[i-k] *)
IAt(x, n) == IF n >= 0 /\ n < Len(x) THEN x[n + 1] ELSE 0

RECURSIVE ConvSum(_, _, _, _)
ConvSum(h, x, i, k) ==
  IF k >= Len(h) THEN 0
  ELSE h[k + 1] * IAt(x, i - k) + ConvSum(h, x, i, k + 1)

Conv(h, x, i) == ConvSum(h, x, i, 0)

(* C3: after run_filter, output[i] = sum_k h[k]*x[i-k] for every            *)
(* 0 <= i < output_size, with no residual scale factor.                    *)
C3_DFTConvolution ==
  (pc = "load" /\ cnt > 0) =>
    \A i \in 0..(filt.output_size - 1) :
      filt.output[i + 1] = Conv(log, srcs[1], i)

(* What the transform pair of the code leaves in output *)
DFTOutputIsScaledConvolution ==
  (pc = "load" /\ cnt > 0) =>
    \A i \in 0..(filt.output_size - 1) :
      filt.output[i + 1] = filt.num_fft * Conv(log, srcs[1], i)

----------------------------------------------------------------------------
(* fft_processing.hpp: OverlapAddConvolver                                 *)
(*                                                                         *)
(* Members are initialised in declaration order: window_size,              *)
(* num_transients, output_size, and only then convolver.  num_transients   *)
(* and output_size are therefore read from a convolver that is not yet     *)
(* constructed: their values are indeterminate (nt, os below).  The        *)
(* vector output has no initialiser: it is empty.                          *)

OverlapAddConvolver(window_size, filter_coeffs, nt, os) ==
  [window_size    |-> window_size,
   num_transients |-> nt,
   output_size    |-> os,
   convolver      |-> DFTConvolver(window_size, filter_coeffs),
   output         |-> <<>>,
   write_idx      |-> 0,
   input_idx      |-> 0,
   output_idx     |-> 0]

(* Slots written by the zero loop of ready_output *)
ZeroSlots(o) ==
  LET zero_start == (o.write_idx + o.num_transients) % o.output_size
  IN  {(zero_start + i) % o.output_size : i \in 0..(o.window_size - 1)}

(* Slots written by the accumulate loop of write_output *)
WriteSlots(o) ==
  {(o.write_idx + i) % o.output_size : i \in 0..(o.output_size - 1)}

(* Every index of ready_output / write_output is inside its array *)
BlockDefined(o) ==
  /\ o.output_size > 0
  /\ \A idx \in ZeroSlots(o) : idx < Len(o.output)
  /\ \A idx \in WriteSlots(o) : idx < Len(o.output) /\ idx < o.convolver.num_fft

ready_output(o) ==
  [o EXCEPT !.output = [k \in 1..Len(o.output) |->
                          IF (k - 1) \in ZeroSlots(o) THEN 0 ELSE o.output[k]]]

AccumulateSource(o, idx, i) == o.convolver.output[idx + 1]

write_output(o) ==
  [o EXCEPT !.output = [k \in 1..Len(o.output) |->
                          IF (k - 1) \in WriteSlots(o)
                          THEN o.output[k] +
                               AccumulateSource(o, k - 1,
                                  (k - 1 - o.write_idx) % o.output_size)
                          ELSE o.output[k]],
            !.output_idx = o.write_idx,
            !.write_idx = (o.write_idx + o.window_size) % o.output_size]

(* next: the object after the call, the value returned, and whether the    *)
(* call indexed outside an array or divided by zero (undefined behaviour)  *)
OLANext(o, x) ==
  LET pushed == [o EXCEPT !.convolver.input[o.input_idx + 1] = x,
                          !.input_idx = o.input_idx + 1]
      block  == pushed.input_idx = o.window_size
      ran    == [pushed EXCEPT !.input_idx = 0,
                               !.convolver = run_filter(pushed.convolver)]
  IN  IF block /\ ~BlockDefined(ran)
      THEN [unit |-> o, y |-> 0, ub |-> TRUE]
      ELSE LET b == IF block THEN write_output(ready_output(ran)) ELSE pushed
           IN  IF b.output_idx >= Len(b.output) \/ b.output_size = 0
               THEN [unit |-> o, y |-> 0, ub |-> TRUE]
               ELSE [unit |-> [b EXCEPT !.output_idx =
                                  (b.output_idx + 1) % b.output_size],
                     y    |-> b.output[b.output_idx + 1],
                     ub   |-> FALSE]

----------------------------------------------------------------------------
(* A caller of OverlapAddConvolver::next, as run_overlap_add_tests: the    *)
(* samples of x, then flush zeros; every returned value is collected.      *)
(* log keeps the filter coefficients.                                      *)

Indeterminate(intended) == {0, intended, intended + 1}

OLAInit ==
  \E window_size \in 2..MaxWindow, h \in Filters :
    \E x \in UNION {[1..k -> SampleInts] : k \in 1..MaxLen} :
      \E nt \in Indeterminate(Len(h) - 1) :
        \E os \in Indeterminate(window_size + Len(h) - 1) :
          /\ filt = OverlapAddConvolver(window_size, h, nt, os)
          /\ srcs = <<STLVectorInputSignal(x)>>
          /\ sinks = <<(<<>>)>>
          /\ pc = "feed"
          /\ cnt = 0
          /\ ntr = window_size + Len(h)
          /\ log = h

OLAFeed ==
  /\ pc = "feed"
  /\ cnt < Len(srcs[1].input) + ntr
  /\ LET x == IAt(srcs[1].input, cnt)
         n == OLANext(filt, x)
     IN  IF n.ub
         THEN /\ pc' = "undefined"
              /\ UNCHANGED <<filt, sinks, cnt>>
         ELSE /\ filt' = n.unit
              /\ sinks' = <<Append(sinks[1], n.y)>>
              /\ cnt' = cnt + 1
              /\ pc' = "feed"
  /\ UNCHANGED <<srcs, ntr, log>>

OLANextStep == OLAFeed

SpecOLA == OLAInit /\ [][OLANextStep]_vars

(* C2: the first window_size - 1 calls of next return 0, and every later   *)
(* call n returns conv(h, x)[n - (window_size - 1)], across every block.   *)
C2_OverlapAddLatency ==
  /\ pc # "undefined"
  /\ \A n \in 1..Len(sinks[1]) :
       sinks[1][n] = IF n - 1 < filt.window_size - 1 THEN 0
                     ELSE Conv(log, srcs[1].input, n - 1 - (filt.window_size - 1))

(* C20: for every window_size >= 2, the outputs collected over             *)
(* len(x) + filter_size - 1 calls of next are the linear convolution of x  *)
(* with the filter delayed by exactly one sample (one leading zero),       *)
(* whatever the window size.                                               *)
C20_OneSampleDelayAnyWindow ==
  /\ pc # "undefined"
  /\ \A n \in 1..Len(sinks[1]) :
       n <= Len(srcs[1].input) + Len(log) - 1 =>
         sinks[1][n] = IF n = 1 THEN 0 ELSE Conv(log, srcs[1].input, n - 2)

(* C23: between two calls of next, input_idx < window_size, write_idx <    *)
(* output_size and output_idx < output_size; write_idx is a multiple of    *)
(* window_size modulo output_size, and the block transform has run once    *)
(* per window_size calls (input_idx counts the calls since the last one).  *)
C23_OLAIndexInvariant ==
  /\ pc # "undefined"
  /\ filt.input_idx < filt.window_size
  /\ filt.input_idx = cnt % filt.window_size
  /\ filt.write_idx < filt.output_size
  /\ filt.output_idx < filt.output_size
  /\ filt.write_idx =
       ((cnt \div filt.window_size) * filt.window_size) % filt.output_size

(* The object inside the call of next that completes a block, just before  *)
(* ready_output runs                                                       *)
AtBlock(o, x) ==
  [o EXCEPT !.convolver = run_filter([o.convolver EXCEPT !.input[o.input_idx + 1] = x]),
            !.input_idx = 0]

(* The last window_size slots next has returned *)
EmittedSlots(o) ==
  {(o.output_idx + o.output_size - i) % o.output_size : i \in 1..o.window_size}

(* C24: every call of next has a defined result, and in a call that        *)
(* completes a block after the first, the slots ready_output clears are    *)
(* exactly the window_size slots returned since the previous block.        *)
C24_ClearedAreEmitted ==
  [][/\ pc' # "undefined"
     /\ (cnt' = cnt + 1 /\ cnt >= filt.window_size /\ cnt' % filt.window_size = 0)
          => ZeroSlots(AtBlock(filt, IAt(srcs[1].input, cnt))) = EmittedSlots(filt)]_vars

(* C25: the ring holds at least output_size slots from construction on,    *)
(* no call of next indexes outside it, and the slots written by the zero   *)
(* loop (window_size of them) and by the accumulate loop (output_size of   *)
(* them) are pairwise distinct slots of the ring.                          *)
C25_LoopSlotsDistinctInRange ==
  /\ pc # "undefined"
  /\ filt.output_size > 0
  /\ Len(filt.output) >= filt.output_size
  /\ Cardinality(ZeroSlots(filt)) = filt.window_size
  /\ Cardinality(WriteSlots(filt)) = filt.output_size
  /\ \A idx \in ZeroSlots(filt) \cup WriteSlots(filt) : idx < Len(filt.output)

----------------------------------------------------------------------------
(* feedback_comb_filter.hpp *)

FeedforwardFeedbackCombFilter(input_coeff, input_delay_coeff, output_coeff, delay) ==
  [kind |-> "fffb",
   input_coeff |-> input_coeff,
   input_delay_coeff |-> input_delay_coeff,
   output_coeff |-> output_coeff,
   delay |-> delay,
   input_buffer |-> Zeros(delay),
   output_buffer |-> Zeros(delay),
   buffer_idx |-> 0]

(* The constructor's assert(abs(output_coeff) < 1.0) *)
FFFBConstructible(output_coeff) == QAbsLess1(output_coeff)

(* Mutant: the output ring is never written *)
FFFBNextNoOutputStore(f, x) ==
  LET delay_input  == f.input_buffer[f.buffer_idx + 1]
      delay_output == f.output_buffer[f.buffer_idx + 1]
      delay_term   == QAdd(QMul(f.input_delay_coeff, delay_input),
                           QMul(f.output_coeff, delay_output))
      output       == QAdd(QMul(f.input_coeff, x), delay_term)
  IN  [unit |-> [f EXCEPT !.input_buffer[f.buffer_idx + 1] = x,
                         !.buffer_idx = (f.buffer_idx + 1) % f.delay],
       y    |-> output,
       ub   |-> FALSE]

FFFBNext(f, x) ==
  IF f.delay = 0 THEN [unit |-> f, y |-> QZero, ub |-> TRUE]
  ELSE
  LET delay_input  == f.input_buffer[f.buffer_idx + 1]
      delay_output == f.output_buffer[f.buffer_idx + 1]
      delay_term   == QAdd(QMul(f.input_delay_coeff, delay_input),
                           QMul(f.output_coeff, delay_output))
      output       == QAdd(QMul(f.input_coeff, x), delay_term)
  IN  [unit |-> [f EXCEPT !.input_buffer[f.buffer_idx + 1] = x,
                         !.output_buffer[f.buffer_idx + 1] = output,
                         !.buffer_idx = (f.buffer_idx + 1) % f.delay],
       y    |-> output,
       ub   |-> FALSE]

(* prev_output has no initialiser: it starts with an indeterminate value *)
OnePoleLowpassFilter(alpha, beta, indeterminate) ==
  [alpha |-> alpha, beta |-> beta, prev_output |-> indeterminate]

(* Mutant: beta = 1 and beta = -1 pass the assertion *)
OnePoleConstructibleInclusive(beta) == Abs(beta[1]) <= beta[2]

(* The constructor's assert(abs(beta) < 1) *)
OnePoleConstructible(beta) == QAbsLess1(beta)

OnePoleNext(f, x) ==
  LET output == QAdd(QMul(f.alpha, x), QMul(f.beta, f.prev_output))
  IN  [unit |-> [f EXCEPT !.prev_output = output], y |-> output]

FilteredFeedbackCombFilter(alpha, beta, feedback_delay, indeterminate) ==
  [kind |-> "ffb",
   alpha |-> alpha,
   beta |-> beta,
   feedback_delay |-> feedback_delay,
   lp_filter |-> OnePoleLowpassFilter(alpha, beta, indeterminate),
   out_buffer |-> Zeros(feedback_delay),
   buffer_idx |-> 0]

(* ++buffer_idx of FilteredFeedbackCombFilter::next *)
FFBAdvanceIndex(f) == f.buffer_idx + 1

(* out_buffer[buffer_idx] outside the vector is undefined behaviour *)
FFBNext(f, x) ==
  IF f.buffer_idx >= Len(f.out_buffer)
  THEN [unit |-> f, y |-> QZero, ub |-> TRUE]
  ELSE
  LET delay_output == f.out_buffer[f.buffer_idx + 1]
      lp           == OnePoleNext(f.lp_filter, delay_output)
      output       == QAdd(x, lp.y)
  IN  [unit |-> [f EXCEPT !.lp_filter = lp.unit,
                         !.out_buffer[f.buffer_idx + 1] = output,
                         !.buffer_idx = FFBAdvanceIndex(f)],
       y    |-> output,
       ub   |-> FALSE]

----------------------------------------------------------------------------
(* combiners.hpp: FilterVariant, SeriesCombination, ParallelCombination *)

SeriesCombination(units) == [kind |-> "series", units |-> units]

ParallelCombination(units, lt) == [kind |-> "parallel", units |-> units, lt |-> lt]

RECURSIVE UnitNext(_, _)
RECURSIVE SeriesFold(_, _, _, _)
RECURSIVE ParallelSum(_, _, _)
RECURSIVE ParallelOutputs(_, _, _)

(* Mutant: every unit is fed the argument of next instead of the output of *)
(* the unit before it                                                      *)
RECURSIVE SeriesFoldBroadcast(_, _, _, _)
SeriesFoldBroadcast(units, i, output, ub) ==
  IF i > Len(units) THEN [units |-> units, y |-> output, ub |-> ub]
  ELSE LET r    == UnitNext(units[i], output)
           rest == SeriesFoldBroadcast([units EXCEPT ![i] = r.unit], i + 1,
                                       output, ub \/ r.ub)
       IN  IF i = Len(units) THEN [rest EXCEPT !.y = r.y] ELSE rest

(* The loop of SeriesCombination::next from unit i on: output is the value *)
(* carried into unit i                                                     *)
SeriesFold(units, i, output, ub) ==
  IF i > Len(units) THEN [units |-> units, y |-> output, ub |-> ub]
  ELSE LET r == UnitNext(units[i], output)
       IN  SeriesFold([units EXCEPT ![i] = r.unit], i + 1, r.y, ub \/ r.ub)

SeriesNext(s, x) ==
  LET r == SeriesFold(s.units, 1, x, FALSE)
  IN  [unit |-> [s EXCEPT !.units = r.units], y |-> r.y, ub |-> r.ub]

(* Mutant: the results are summed without their weights *)
RECURSIVE ParallelSumUnweighted(_, _, _)
ParallelSumUnweighted(lt, outs, i) ==
  IF i > Len(outs) THEN QZero
  ELSE QAdd(outs[i].y, ParallelSumUnweighted(lt, outs, i + 1))

(* lt.transpose() * output *)
ParallelSum(lt, outs, i) ==
  IF i > Len(outs) THEN QZero
  ELSE QAdd(QMul(lt[i], outs[i].y), ParallelSum(lt, outs, i + 1))

(* The for loop of ParallelCombination::next from unit i on *)
ParallelOutputs(units, input, i) ==
  IF i > Len(units) THEN <<>>
  ELSE <<UnitNext(units[i], input)>> \o ParallelOutputs(units, input, i + 1)

ParallelNext(p, x) ==
  LET outs == ParallelOutputs(p.units, x, 1)
  IN  [unit |-> [p EXCEPT !.units = [i \in 1..Len(p.units) |-> outs[i].unit]],
       y    |-> ParallelSum(p.lt, outs, 1),
       ub   |-> \E i \in 1..Len(p.units) : outs[i].ub]

(* std::visit on the variant / the virtual call of IIRFilter::next *)
UnitNext(u, x) ==
  CASE u.kind = "tdl"      -> TDLNext(u, x)
    [] u.kind = "fffb"     -> FFFBNext(u, x)
    [] u.kind = "ffb"      -> FFBNext(u, x)
    [] u.kind = "series"   -> SeriesNext(u, x)
    [] u.kind = "parallel" -> ParallelNext(u, x)

----------------------------------------------------------------------------
(* filter_base.hpp: IIRFilter::process and FIRFilter::process              *)
(* log is the sequence of arguments next was called with.                  *)

(* One iteration of the while loop: read_next, break on an empty optional, *)
(* else write_next(next(input))                                            *)
IIRProcessRead ==
  /\ pc = "read"
  /\ LET r == ReadNext(srcs[1])
         n == UnitNext(filt, r.value)
     IN  /\ srcs' = <<r.stream>>
         /\ IF ~r.has
            THEN /\ pc' = "flush"
                 /\ UNCHANGED <<filt, sinks, log>>
            ELSE IF n.ub
            THEN /\ pc' = "undefined"
                 /\ UNCHANGED <<filt, sinks, log>>
            ELSE /\ filt' = n.unit
                 /\ sinks' = <<WriteNext(sinks[1], n.y)>>
                 /\ log' = Append(log, r.value)
                 /\ pc' = "read"
  /\ UNCHANGED <<cnt, ntr>>

(* Mutant: one flush sample too many *)
FlushBoundInclusive(i, num_output_transients) == i <= num_output_transients

FlushBound(i, num_output_transients) == i < num_output_transients

(* One iteration of the for loop: write_next(next(0)) while the bound holds *)
IIRProcessFlush ==
  /\ pc = "flush"
  /\ IF FlushBound(cnt, ntr)
     THEN LET n == UnitNext(filt, QZero)
          IN  IF n.ub
              THEN /\ pc' = "undefined"
                   /\ UNCHANGED <<filt, sinks, log, cnt>>
              ELSE /\ filt' = n.unit
                   /\ sinks' = <<WriteNext(sinks[1], n.y)>>
                   /\ log' = Append(log, QZero)
                   /\ cnt' = cnt + 1
                   /\ pc' = "flush"
     ELSE /\ pc' = "done"
          /\ UNCHANGED <<filt, sinks, log, cnt>>
  /\ UNCHANGED <<srcs, ntr>>

(* FIRFilter is abstract and has no subclass in the library: its virtual   *)
(* next and max_delay are bound here to a tapped delay line.               *)
FIRMaxDelay(f) == SeqMax(f.delays)

(* const int num_transients = max_delay() *)
FIRProcessEnter ==
  /\ pc = "fir_enter"
  /\ ntr' = FIRMaxDelay(filt)
  /\ pc' = "fir_read"
  /\ UNCHANGED <<filt, srcs, sinks, cnt, log>>

FIRProcessRead ==
  /\ pc = "fir_read"
  /\ LET r == ReadNext(srcs[1])
         n == TDLNext(filt, r.value)
     IN  /\ srcs' = <<r.stream>>
         /\ IF ~r.has
            THEN /\ pc' = "fir_flush"
                 /\ UNCHANGED <<filt, sinks, log>>
            ELSE IF n.ub
            THEN /\ pc' = "undefined"
                 /\ UNCHANGED <<filt, sinks, log>>
            ELSE /\ filt' = n.unit
                 /\ sinks' = <<WriteNext(sinks[1], n.y)>>
                 /\ log' = Append(log, r.value)
                 /\ pc' = "fir_read"
  /\ UNCHANGED <<cnt, ntr>>

FIRProcessFlush ==
  /\ pc = "fir_flush"
  /\ IF FlushBound(cnt, ntr)
     THEN LET n == TDLNext(filt, QZero)
          IN  /\ filt' = n.unit
              /\ sinks' = <<WriteNext(sinks[1], n.y)>>
              /\ log' = Append(log, QZero)
              /\ cnt' = cnt + 1
              /\ pc' = "fir_flush"
     ELSE /\ pc' = "done"
          /\ UNCHANGED <<filt, sinks, log, cnt>>
  /\ UNCHANGED <<srcs, ntr>>

----------------------------------------------------------------------------
(* process on a feedforward-feedback comb filter (test_double_fffbcf) and  *)
(* on a FIR filter                                                         *)

CombCoeffs == {Q(n) : n \in {-MaxCoeff, MaxCoeff}}

FeedbackCoeffs == {<<-1, 2>>, Q(0), <<1, 2>>}

Inputs == SeqsUpTo(Samples, MaxLen)

IIRInit ==
  /\ srcs \in {<<STLVectorInputSignal(x)>> : x \in Inputs}
  /\ sinks = <<(<<>>)>>
  /\ cnt = 0
  /\ log = <<>>
  /\ \/ /\ filt \in {FeedforwardFeedbackCombFilter(b0, b1, a, m) :
                       b0 \in CombCoeffs, b1 \in CombCoeffs,
                       a \in {c \in FeedbackCoeffs : FFFBConstructible(c)},
                       m \in 1..MaxDelay}
        /\ ntr \in 0..MaxTransients
        /\ pc = "read"
     \/ /\ filt \in {TappedDelayLine(<<d>>, <<b0, b1>>) :
                       d \in 1..MaxDelay, b0 \in CombCoeffs, b1 \in CombCoeffs}
        /\ ntr = 0
        /\ pc = "fir_enter"

IIRNextStep ==
  \/ IIRProcessRead
  \/ IIRProcessFlush
  \/ FIRProcessEnter
  \/ FIRProcessRead
  \/ FIRProcessFlush

SpecIIR == IIRInit /\ [][IIRNextStep]_vars

(* C4: from zeroed buffers the n-th call of next returns                   *)
(* y[n] = b0*x[n] + b1*x[n-m] + a*y[n-m] (negative indexes give 0), for    *)
(* any number of calls, and the buffer index stays within 0..m-1.          *)
C4_CombDifferenceEquation ==
  filt.kind = "fffb" =>
    /\ filt.buffer_idx \in 0..(filt.delay - 1)
    /\ \A n \in 1..Len(sinks[1]) :
         sinks[1][n] =
           QAdd(QMul(filt.input_coeff, log[n]),
                QAdd(QMul(filt.input_delay_coeff, XAt(log, n - 1 - filt.delay)),
                     QMul(filt.output_coeff, XAt(sinks[1], n - 1 - filt.delay))))

(* The comb has fed back its own feedback: more than 2m calls, a # 0 *)
C4_Witness ==
  /\ filt.kind = "fffb"
  /\ pc = "done"
  /\ filt.output_coeff # QZero
  /\ Len(sinks[1]) > 2 * filt.delay
  /\ XAt(sinks[1], Len(sinks[1]) - 1 - filt.delay) # QZero

(* The filter as it was constructed, from its constant members *)
AsConstructed(f) ==
  IF f.kind = "fffb"
  THEN FeedforwardFeedbackCombFilter(f.input_coeff, f.input_delay_coeff,
                                     f.output_coeff, f.delay)
  ELSE TappedDelayLine(f.delays, f.coeffs)

(* The values next returns when called on each element of xs in turn *)
RECURSIVE RunOutputs(_, _)
RunOutputs(u, xs) ==
  IF xs = <<>> THEN <<>>
  ELSE LET r == UnitNext(u, Head(xs))
       IN  <<r.y>> \o RunOutputs(r.unit, Tail(xs))

ProcessPostcondition ==
  LET x == srcs[1].input
      L == Len(x)
  IN  /\ Len(sinks[1]) = L + ntr
      /\ log = x \o Zeros(ntr)
      /\ sinks[1] = RunOutputs(AsConstructed(filt), log)
      /\ srcs[1].reads = L + 1
      /\ filt.kind = "tdl" => ntr = SeqMax(filt.delays)

(* C6: process on a source of L samples terminates (it is always at a loop *)
(* iteration or at the end, and the iterations are counted by the bounded  *)
(* reads and cnt),                                                         *)
(* having read the source up to its first empty optional, and has written  *)
(* exactly L + num_transients values: next(x_0), ..., next(x_(L-1)) in     *)
(* order, then num_transients results of next(0) (FIRFilter:               *)
(* num_transients = max_delay()).                                          *)
C6_ProcessDrainsThenFlushes ==
  /\ pc = "done" => ProcessPostcondition
  /\ pc \in {"read", "flush", "fir_enter", "fir_read", "fir_flush", "done"}
  /\ srcs[1].reads <= Len(srcs[1].input) + 1
  /\ cnt <= ntr
  /\ Len(log) = srcs[1].iterator + cnt

C6_Witness ==
  /\ pc = "done"
  /\ filt.kind = "fffb"
  /\ Len(srcs[1].input) >= 2
  /\ ntr >= 2
  /\ Len(sinks[1]) = Len(srcs[1].input) + ntr

----------------------------------------------------------------------------
(* process on a filtered-feedback comb filter                              *)

LowpassCoeffs == {Q(0), <<1, 2>>}

FFBInit ==
  /\ srcs \in {<<STLVectorInputSignal(x)>> : x \in Inputs}
  /\ sinks = <<(<<>>)>>
  /\ cnt = 0
  /\ log = <<>>
  /\ filt \in {FilteredFeedbackCombFilter(alpha, beta, m, ind) :
                 alpha \in LowpassCoeffs,
                 beta \in {c \in LowpassCoeffs : OnePoleConstructible(c)},
                 m \in 1..MaxDelay,
                 ind \in {Q(0), Q(1)}}
  /\ ntr \in 0..MaxTransients
  /\ pc = "read"

IIRProcessStep ==
  \/ IIRProcessRead
  \/ IIRProcessFlush

SpecFFB == FFBInit /\ [][IIRProcessStep]_vars

(* C5: after any number of calls of FilteredFeedbackCombFilter::next the   *)
(* buffer index lies in 0..feedback_delay-1 and no call reads or writes    *)
(* the feedback ring out of range.                                         *)
C5_FFBIndexInRange ==
  filt.kind = "ffb" =>
    /\ pc # "undefined"
    /\ filt.buffer_idx \in 0..(filt.feedback_delay - 1)

----------------------------------------------------------------------------
(* filter_base.hpp: MIMOIIRFilter                                          *)
(* output_lt is a sequence of rows; filt.filters are the objects behind    *)
(* the shared pointers; log is the sequence of vectors next was called on. *)

MIMOIIRFilter(input_scale, output_lt, filters) ==
  [kind |-> "mimo",
   input_scale |-> input_scale,
   output_lt |-> output_lt,
   filters |-> filters]

(* The constructor's assert(output_lt.cols() == filters.size()) *)
MIMOConstructible(output_lt, filters) ==
  \A r \in 1..Len(output_lt) : Len(output_lt[r]) = Len(filters)

num_inputs(m) == Len(m.filters)

num_outputs(m) == Len(m.output_lt)

(* One row of output_lt * out, from column c on *)
RECURSIVE RowDot(_, _, _)
RowDot(row, out, c) ==
  IF c > Len(row) THEN QZero
  ELSE QAdd(QMul(row[c], out[c]), RowDot(row, out, c + 1))

(* The for loop of MIMOIIRFilter::next from child i on *)
RECURSIVE ChildOutputs(_, _, _)
ChildOutputs(filters, input, i) ==
  IF i > Len(filters) THEN <<>>
  ELSE <<UnitNext(filters[i], input[i])>> \o ChildOutputs(filters, input, i + 1)

(* Mutant: every child is fed the first channel's sample *)
MIMONextFirstChannel(m, input) ==
  LET outs == [i \in 1..Len(m.filters) |-> UnitNext(m.filters[i], input[1])]
      out  == [i \in 1..Len(m.filters) |-> outs[i].y]
  IN  [unit |-> [m EXCEPT !.filters = [i \in 1..Len(m.filters) |-> outs[i].unit]],
       y    |-> [r \in 1..Len(m.output_lt) |->
                   QAdd(QMul(m.input_scale, input[r]), RowDot(m.output_lt[r], out, 1))],
       ub   |-> \E i \in 1..Len(m.filters) : outs[i].ub]

(* input_scale * input + output_lt * out adds vectors of num_inputs and    *)
(* num_outputs rows: with different sizes the sum is not defined           *)
MIMONext(m, input) ==
  IF Len(m.output_lt) # Len(input) \/ Len(m.filters) # Len(input)
  THEN [unit |-> m, y |-> <<>>, ub |-> TRUE]
  ELSE
  LET outs == ChildOutputs(m.filters, input, 1)
      out  == [i \in 1..Len(m.filters) |-> outs[i].y]
  IN  [unit |-> [m EXCEPT !.filters = [i \in 1..Len(m.filters) |-> outs[i].unit]],
       y    |-> [r \in 1..Len(m.output_lt) |->
                   QAdd(QMul(m.input_scale, input[r]), RowDot(m.output_lt[r], out, 1))],
       ub   |-> \E i \in 1..Len(m.filters) : outs[i].ub]

(* The for loop of read_vector from source i on. failed: an assert failed. *)
RECURSIVE ReadVectorFrom(_, _, _, _)
ReadVectorFrom(list, i, input, input_end) ==
  IF i > Len(list)
  THEN [list |-> list, has |-> ~input_end, value |-> input, failed |-> FALSE]
  ELSE LET r    == ReadNext(list[i])
           read == [list EXCEPT ![i] = r.stream]
       IN  IF ~input_end
           THEN IF ~r.has
                THEN IF i # 1
                     THEN [list |-> read, has |-> FALSE, value |-> input, failed |-> TRUE]
                     ELSE ReadVectorFrom(read, i + 1, input, TRUE)
                ELSE ReadVectorFrom(read, i + 1, [input EXCEPT ![i] = r.value], FALSE)
           ELSE IF r.has
                THEN [list |-> read, has |-> FALSE, value |-> input, failed |-> TRUE]
                ELSE ReadVectorFrom(read, i + 1, input, TRUE)

(* Mutant: the sources after an exhausted one are not looked at *)
read_vector_unchecked(isignal_list) ==
  LET r == ReadVectorFrom(isignal_list, 1, Zeros(Len(isignal_list)), FALSE)
  IN  [r EXCEPT !.failed = FALSE]

read_vector(isignal_list) ==
  ReadVectorFrom(isignal_list, 1, Zeros(Len(isignal_list)), FALSE)

write_vector(osignal_list, output) ==
  [i \in 1..Len(osignal_list) |-> WriteNext(osignal_list[i], output[i])]

(* The assertions at the head of process *)
MIMOProcessEnter ==
  /\ pc = "mimo_enter"
  /\ IF Len(srcs) = num_inputs(filt) /\ Len(sinks) = num_outputs(filt)
     THEN pc' = "mimo_read"
     ELSE pc' = "assert_failed"
  /\ UNCHANGED <<filt, srcs, sinks, cnt, ntr, log>>

(* One iteration of the while loop *)
MIMOProcessRead ==
  /\ pc = "mimo_read"
  /\ LET input == read_vector(srcs)
         n     == MIMONext(filt, input.value)
     IN  /\ srcs' = input.list
         /\ IF input.failed
            THEN /\ pc' = "assert_failed"
                 /\ UNCHANGED <<filt, sinks, log>>
            ELSE IF ~input.has
            THEN /\ pc' = "mimo_flush"
                 /\ UNCHANGED <<filt, sinks, log>>
            ELSE IF n.ub
            THEN /\ pc' = "undefined"
                 /\ UNCHANGED <<filt, sinks, log>>
            ELSE /\ filt' = n.unit
                 /\ sinks' = write_vector(sinks, n.y)
                 /\ log' = Append(log, input.value)
                 /\ pc' = "mimo_read"
  /\ UNCHANGED <<cnt, ntr>>

(* One iteration of the for loop on VectorType::Zero(num_inputs()) *)
MIMOProcessFlush ==
  /\ pc = "mimo_flush"
  /\ IF FlushBound(cnt, ntr)
     THEN LET n == MIMONext(filt, Zeros(num_inputs(filt)))
          IN  IF n.ub
              THEN /\ pc' = "undefined"
                   /\ UNCHANGED <<filt, sinks, log, cnt>>
              ELSE /\ filt' = n.unit
                   /\ sinks' = write_vector(sinks, n.y)
                   /\ log' = Append(log, Zeros(num_inputs(filt)))
                   /\ cnt' = cnt + 1
                   /\ pc' = "mimo_flush"
     ELSE /\ pc' = "done"
          /\ UNCHANGED <<filt, sinks, log, cnt>>
  /\ UNCHANGED <<srcs, ntr>>

MIMONextStep ==
  \/ MIMOProcessEnter
  \/ MIMOProcessRead
  \/ MIMOProcessFlush

----------------------------------------------------------------------------
(* MIMOIIRFilter::process on two channels whose sources may differ in      *)
(* length                                                                  *)

VecInputs == SeqsUpTo(Samples, MaxVecLen)

ChildFilters ==
  {FeedforwardFeedbackCombFilter(Q(-1), Q(1), <<1, 2>>, 2),
   SeriesCombination(<<FeedforwardFeedbackCombFilter(Q(1), Q(-1), Q(0), 1),
                       FeedforwardFeedbackCombFilter(Q(1), Q(1), <<-1, 2>>, 1)>>)}

OutputLTs ==
  {<<(<<Q(1), Q(0)>>), (<<Q(0), Q(1)>>)>>,
   <<(<<Q(1), Q(2)>>), (<<Q(-1), Q(1)>>)>>}

MIMOInit ==
  /\ srcs \in {<<STLVectorInputSignal(l), STLVectorInputSignal(r)>> :
                 l \in VecInputs, r \in VecInputs}
  /\ sinks = <<(<<>>), (<<>>)>>
  /\ cnt = 0
  /\ log = <<>>
  /\ filt \in {MIMOIIRFilter(s, lt, <<f1, f2>>) :
                 s \in {Q(0), Q(1)},
                 lt \in {m \in OutputLTs : MIMOConstructible(m, <<1, 2>>)},
                 f1 \in ChildFilters, f2 \in ChildFilters}
  /\ ntr \in 0..MaxFlush
  /\ pc = "mimo_enter"

SpecMIMO == MIMOInit /\ [][MIMONextStep]_vars

Exhausted(s) == s.iterator = Len(s.input)

(* C7: in a step of the read loop where one source is exhausted and        *)
(* another still has a sample, the step ends in a failed assertion and     *)
(* writes no output vector; the loop moves on to the flush exactly in the  *)
(* step where every source is exhausted.                                   *)
C7_MismatchAsserts ==
  [][pc = "mimo_read" =>
       /\ ((\E i \in 1..Len(srcs) : Exhausted(srcs[i])) /\
           (\E j \in 1..Len(srcs) : ~Exhausted(srcs[j])))
            => (pc' = "assert_failed" /\ sinks' = sinks /\ log' = log)
       /\ (pc' = "mimo_flush") <=> (\A i \in 1..Len(srcs) : Exhausted(srcs[i]))]_vars

(* The second source ran out first, after at least one vector was written *)
C7_Witness ==
  /\ pc = "assert_failed"
  /\ Len(srcs[2].input) < Len(srcs[1].input)
  /\ Len(sinks[1]) = Len(srcs[2].input)
  /\ Len(sinks[1]) >= 1

(* C9: a call of MIMOIIRFilter::next on x appends to the sinks the vector  *)
(* input_scale*x + output_lt*u with u[i] = filters[i].next(x[i]), and      *)
(* leaves child i in the state one call of next(x[i]) puts it in.          *)
C9_MIMONext ==
  [][Len(log') = Len(log) + 1 =>
       LET x  == log'[Len(log')]
           u1 == UnitNext(filt.filters[1], x[1])
           u2 == UnitNext(filt.filters[2], x[2])
       IN  /\ filt'.filters = <<u1.unit, u2.unit>>
           /\ \A r \in 1..2 :
                sinks'[r] = Append(sinks[r],
                  QAdd(QMul(filt.input_scale, x[r]),
                       QAdd(QMul(filt.output_lt[r][1], u1.y),
                            QMul(filt.output_lt[r][2], u2.y))))]_vars

(* Two calls with different samples on the two channels went through a     *)
(* full output matrix and different children                               *)
C9_Witness ==
  /\ pc = "done"
  /\ Len(log) >= 2
  /\ log[1][1] # log[1][2]
  /\ filt.output_lt[1][2] # QZero
  /\ filt.filters[1] # filt.filters[2]
  /\ sinks[1] # sinks[2]

----------------------------------------------------------------------------
(* freeverb.hpp: make_freeverb_filter; signal_cpp.cpp: freeverb_filter     *)

lbcf_delay1 == 1557

lbcf_delay2 == 1617

lbcf_delay3 == 1491

lbcf_delay4 == 1422

lbcf_delay5 == 1277

lbcf_delay6 == 1356

lbcf_delay7 == 1188

lbcf_delay8 == 1116

ap_delay1 == 225

ap_delay2 == 556

ap_delay3 == 441

ap_delay4 == 341

(* Eigen's Ones(n) *)
Ones(n) == [i \in 1..n |-> Q(1)]

LbcfDelays ==
  <<lbcf_delay1, lbcf_delay2, lbcf_delay3, lbcf_delay4,
    lbcf_delay5, lbcf_delay6, lbcf_delay7, lbcf_delay8>>

ApDelays == <<ap_delay1, ap_delay2, ap_delay3, ap_delay4>>

(* One channel: the bank of eight lowpass-feedback combs in parallel, then *)
(* the four all-pass approximations in series; spread is added to every    *)
(* delay                                                                   *)
FreeverbChannel(alpha, beta, g, spread, indeterminate) ==
  SeriesCombination(<<
    ParallelCombination(
      [i \in 1..8 |->
         FilteredFeedbackCombFilter(alpha, beta, LbcfDelays[i] + spread, indeterminate)],
      Ones(8)),
    SeriesCombination(
      [i \in 1..4 |->
         FeedforwardFeedbackCombFilter(Q(-1), QAdd(Q(1), g), g, ApDelays[i] + spread)])>>)

make_freeverb_filter(stereo_spread, dry, wet1, wet2, damp, reflect, g, indeterminate) ==
  LET alpha == QMul(reflect, QAdd(Q(1), QNeg(damp)))
      beta  == damp
  IN  MIMOIIRFilter(dry,
                    <<(<<wet1, wet2>>), (<<wet2, wet1>>)>>,
                    <<FreeverbChannel(alpha, beta, g, 0, indeterminate),
                      FreeverbChannel(alpha, beta, g, stereo_spread, indeterminate)>>)

(* The arguments of test_freeverb *)
stereo_spread == 23

num_transients == 200

(* The first samples of the test's ramp 1, 2, 3, ... *)
RampInputs == {[i \in 1..n |-> Q(i)] : n \in 0..MaxVecLen}

(* freeverb_filter up to the call of process: equal-length inputs (its     *)
(* assert), the filter, the stream lists                                   *)
FreeverbInit ==
  /\ srcs \in {<<STLVectorInputSignal(p[1]), STLVectorInputSignal(p[2])>> :
                 p \in {q \in RampInputs \X RampInputs : Len(q[1]) = Len(q[2])}}
  /\ sinks = <<(<<>>), (<<>>)>>
  /\ cnt = 0
  /\ log = <<>>
  /\ filt \in {make_freeverb_filter(stereo_spread, Q(0), Q(1), Q(0), Q(0), <<1, 2>>, Q(0), ind) :
                 ind \in {Q(0), Q(1)}}
  /\ ntr \in {0, num_transients, lbcf_delay8}
  /\ pc = "mimo_enter"

SpecFreeverb == FreeverbInit /\ [][MIMONextStep]_vars

(* C8: the freeverb filter run through process on equal-length inputs of   *)
(* length L with T transients never fails an assertion nor indexes a       *)
(* buffer out of range, and ends with L + T samples in each of the sinks.  *)
C8_FreeverbCompletes ==
  /\ pc # "assert_failed"
  /\ pc # "undefined"
  /\ pc = "done" =>
       \A r \in 1..2 : Len(sinks[r]) = Len(srcs[1].input) + ntr

----------------------------------------------------------------------------
(* process on a SeriesCombination of up to MaxUnits units                  *)

SeriesUnits ==
  {FeedforwardFeedbackCombFilter(Q(1), Q(1), <<1, 2>>, 1),
   FeedforwardFeedbackCombFilter(Q(-1), Q(1), Q(0), 2),
   TappedDelayLine(<<1>>, <<Q(1), Q(2)>>)}

SeriesInit ==
  /\ srcs \in {<<STLVectorInputSignal(x)>> : x \in Inputs}
  /\ sinks = <<(<<>>)>>
  /\ cnt = 0
  /\ log = <<>>
  /\ filt \in {SeriesCombination(units) : units \in SeqsUpTo(SeriesUnits, MaxUnits)}
  /\ ntr \in 0..MaxFlush
  /\ pc = "read"

SpecSeries == SeriesInit /\ [][IIRProcessStep]_vars

(* The sample unit i is to be fed when the series is called on x: x for    *)
(* the first unit, else what the unit before it returns on its own sample  *)
RECURSIVE ChainIn(_, _, _)
ChainIn(units, i, x) ==
  IF i = 1 THEN x
  ELSE UnitNext(units[i - 1], ChainIn(units, i - 1, x)).y

(* C10: a call of SeriesCombination::next on x leaves every unit in the    *)
(* state one call of its next puts it in, unit 1 called on x and unit i+1  *)
(* on what unit i returned, in construction order, and returns what the    *)
(* last unit returned.                                                     *)
C10_SeriesFoldsInOrder ==
  [][Len(log') = Len(log) + 1 =>
       LET x == log'[Len(log')]
           N == Len(filt.units)
       IN  /\ Len(filt'.units) = N
           /\ \A i \in 1..N :
                filt'.units[i] = UnitNext(filt.units[i], ChainIn(filt.units, i, x)).unit
           /\ sinks'[1] = Append(sinks[1], ChainIn(filt.units, N + 1, x))]_vars

(* A series of two different units has been called at least three times   *)
C10_Witness ==
  /\ pc = "done"
  /\ filt.kind = "series"
  /\ Len(filt.units) = 2
  /\ filt.units[1].kind # filt.units[2].kind
  /\ Len(sinks[1]) >= 3
  /\ sinks[1][3] # QZero

----------------------------------------------------------------------------
(* process on a series holding one ParallelCombination, the way            *)
(* make_freeverb_filter places its comb banks                              *)

ParallelUnits ==
  {FeedforwardFeedbackCombFilter(Q(1), Q(1), <<1, 2>>, 1),
   TappedDelayLine(<<2>>, <<Q(1), Q(2)>>)}

Weights == {Q(1), Q(-2)}

(* The constructor's assert(lt.rows() == units.size()) *)
ParallelConstructible(units, lt) == Len(lt) = Len(units)

ParallelInit ==
  /\ srcs \in {<<STLVectorInputSignal(x)>> : x \in Inputs}
  /\ sinks = <<(<<>>)>>
  /\ cnt = 0
  /\ log = <<>>
  /\ filt \in {SeriesCombination(<<ParallelCombination(c[1], c[2])>>) :
                 c \in {d \in SeqsUpTo(ParallelUnits, MaxUnits) \X SeqsUpTo(Weights, MaxUnits) :
                          ParallelConstructible(d[1], d[2])}}
  /\ ntr \in 0..MaxFlush
  /\ pc = "read"

SpecParallel == ParallelInit /\ [][IIRProcessStep]_vars

(* lt[1]*r[1] + ... + lt[n]*r[n], r[i] the result of child i called on x *)
RECURSIVE WeightedResults(_, _, _)
WeightedResults(p, x, n) ==
  IF n = 0 THEN QZero
  ELSE QAdd(WeightedResults(p, x, n - 1),
            QMul(p.lt[n], UnitNext(p.units[n], x).y))

(* C11: a call of ParallelCombination::next on x leaves every child in the *)
(* state one call of its next on x puts it in, keeps lt, and returns the   *)
(* sum over the children of lt[i] times the result of child i.             *)
C11_ParallelWeightedSum ==
  [][Len(log') = Len(log) + 1 =>
       LET x == log'[Len(log')]
           p == filt.units[1]
           q == filt'.units[1]
       IN  /\ q.lt = p.lt
           /\ Len(q.units) = Len(p.units)
           /\ \A i \in 1..Len(p.units) : q.units[i] = UnitNext(p.units[i], x).unit
           /\ sinks'[1] = Append(sinks[1], WeightedResults(p, x, Len(p.units)))]_vars

(* Two different children with different weights were called three times *)
C11_Witness ==
  /\ pc = "done"
  /\ filt.kind = "series"
  /\ Len(filt.units) = 1
  /\ filt.units[1].kind = "parallel"
  /\ Len(filt.units[1].units) = 2
  /\ filt.units[1].units[1].kind # filt.units[1].units[2].kind
  /\ filt.units[1].lt[1] # filt.units[1].lt[2]
  /\ Len(sinks[1]) >= 3

----------------------------------------------------------------------------
(* analog_to_digital_filters.hpp: FirstOrderFilter and Signal::run_filter  *)
(* srcs[1] holds the input vector, its iterator is the index of the first  *)
(* loop, cnt the index of the second; sinks[1] is the pre-sized out.       *)

FirstOrderFilter(dry, wet, a0, a1, b1) ==
  [kind |-> "first_order",
   dry |-> dry, wet |-> wet, a0 |-> a0, a1 |-> a1, b1 |-> b1,
   x_prev |-> QZero, y_prev |-> QZero]

(* The value next computes on x *)
FirstOrderOut(f, x) ==
  QAdd(QMul(f.dry, x),
       QMul(f.wet, QAdd(QAdd(QMul(f.a0, x), QMul(f.a1, f.x_prev)),
                        QNeg(QMul(f.b1, f.y_prev)))))

(* Mutant: the state keeps the wet part only, not the whole output *)
FirstOrderNextWetState(f, x) ==
  [unit |-> [f EXCEPT !.x_prev = x,
                     !.y_prev = QAdd(FirstOrderOut(f, x), QNeg(QMul(f.dry, x)))],
   y    |-> FirstOrderOut(f, x)]

FirstOrderNext(f, x) ==
  LET out == FirstOrderOut(f, x)
  IN  [unit |-> [f EXCEPT !.x_prev = x, !.y_prev = out], y |-> out]

(* for (i = 0; i < input.size(); ++i) out[i] = filter.next(input[i]) *)
RunFilterInput ==
  /\ pc = "run_input"
  /\ LET i == srcs[1].iterator
     IN  IF i < Len(srcs[1].input)
         THEN LET n == FirstOrderNext(filt, srcs[1].input[i + 1])
              IN  /\ filt' = n.unit
                  /\ sinks' = <<[sinks[1] EXCEPT ![i + 1] = n.y]>>
                  /\ log' = Append(log, srcs[1].input[i + 1])
                  /\ srcs' = <<[srcs[1] EXCEPT !.iterator = i + 1]>>
                  /\ pc' = "run_input"
         ELSE /\ pc' = "run_transients"
              /\ UNCHANGED <<filt, sinks, log, srcs>>
  /\ UNCHANGED <<cnt, ntr>>

(* for (i = 0; i < num_transients; ++i) out[input.size() + i] = next({}) *)
RunFilterTransient ==
  /\ pc = "run_transients"
  /\ IF FlushBound(cnt, ntr)
     THEN LET n == FirstOrderNext(filt, QZero)
          IN  /\ filt' = n.unit
              /\ sinks' = <<[sinks[1] EXCEPT ![Len(srcs[1].input) + cnt + 1] = n.y]>>
              /\ log' = Append(log, QZero)
              /\ cnt' = cnt + 1
              /\ pc' = "run_transients"
     ELSE /\ pc' = "done"
          /\ UNCHANGED <<filt, sinks, log, cnt>>
  /\ UNCHANGED <<srcs, ntr>>

DryWet == {Q(0), Q(1)}

FirstOrderCoeffs == {Q(0), Q(1), <<-1, 2>>}

FirstOrderInit ==
  /\ srcs \in {<<STLVectorInputSignal(x)>> : x \in Inputs}
  /\ ntr \in 0..MaxFlush
  /\ sinks = <<Zeros(Len(srcs[1].input) + ntr)>>
  /\ cnt = 0
  /\ log = <<>>
  /\ filt \in {FirstOrderFilter(dry, wet, a0, a1, b1) :
                 dry \in DryWet, wet \in DryWet, a0 \in FirstOrderCoeffs,
                 a1 \in FirstOrderCoeffs, b1 \in FirstOrderCoeffs}
  /\ pc = "run_input"

FirstOrderNextStep ==
  \/ RunFilterInput
  \/ RunFilterTransient

SpecFirstOrder == FirstOrderInit /\ [][FirstOrderNextStep]_vars

(* C12: the n-th value next returns is                                     *)
(* dry*x[n] + wet*(a0*x[n] + a1*x[n-1] - b1*y[n-1]) with y[n-1] the whole  *)
(* previous output (0 before the first call); with dry = 1, wet = 0 the    *)
(* outputs are the inputs, with dry = 0, wet = 1, a0 = 0, a1 = 1, b1 = 0   *)
(* they are the inputs one call late.                                      *)
C12_FirstOrderDifferenceEquation ==
  filt.kind = "first_order" =>
    \A n \in 1..Len(log) :
      /\ sinks[1][n] =
           QAdd(QMul(filt.dry, log[n]),
                QMul(filt.wet,
                     QAdd(QAdd(QMul(filt.a0, log[n]), QMul(filt.a1, XAt(log, n - 2))),
                          QNeg(QMul(filt.b1, XAt(sinks[1], n - 2))))))
      /\ (filt.dry = Q(1) /\ filt.wet = Q(0)) => sinks[1][n] = log[n]
      /\ (filt.dry = Q(0) /\ filt.wet = Q(1) /\ filt.a0 = Q(0) /\
          filt.a1 = Q(1) /\ filt.b1 = Q(0)) => sinks[1][n] = XAt(log, n - 2)

(* A run with both paths and the feedback in use fed back a non-zero output *)
C12_Witness ==
  /\ pc = "done"
  /\ filt.kind = "first_order"
  /\ filt.dry # QZero /\ filt.wet # QZero /\ filt.b1 # QZero
  /\ Len(log) >= 3
  /\ sinks[1][2] # QZero
  /\ sinks[1][3] # log[3]

----------------------------------------------------------------------------
(* time_varying_delay.hpp: TimeVaryingDelayLine                            *)
(* A delay is a rational; log holds one record per call of next: its       *)
(* arguments, the output it computed and whether an assert stopped it.     *)

QLess(a, b) == a[1] * b[2] < b[1] * a[2]

(* static_cast<int>(floor(delay)) *)
QFloor(a) == a[1] \div a[2]

TimeVaryingDelayLine(max_delay, input_coeff, delay_coeff) ==
  [kind |-> "tvd",
   max_delay |-> max_delay,
   input_coeff |-> input_coeff,
   delay_coeff |-> delay_coeff,
   buffer |-> Zeros(max_delay),
   buffer_idx |-> 0]

(* buffer[idx] for idx = buffer_idx - delay, wrapped once *)
TVDTap(t, delay) ==
  LET idx == t.buffer_idx - delay
  IN  t.buffer[(IF idx < 0 THEN idx + t.max_delay ELSE idx) + 1]

(* older + frac_delay * (newer - older) *)
TVDDelayOutput(t, input, delay) ==
  LET lower_delay == QFloor(delay)
      frac_delay  == QAdd(delay, QNeg(Q(lower_delay)))
      newer       == IF lower_delay = 0 THEN input ELSE TVDTap(t, lower_delay)
      older       == TVDTap(t, lower_delay + 1)
  IN  QAdd(older, QMul(frac_delay, QAdd(newer, QNeg(older))))

(* The two asserts of next *)
TVDDelayAccepted(t, delay) ==
  /\ QFloor(delay) >= 0
  /\ QFloor(delay) + 1 <= t.max_delay

(* next up to its closing brace: the state it leaves and the output it     *)
(* computed. failed: an assert stopped it.                                 *)
TVDNext(t, input, delay) ==
  IF ~TVDDelayAccepted(t, delay)
  THEN [unit |-> t, output |-> QZero, failed |-> TRUE]
  ELSE [unit   |-> [t EXCEPT !.buffer[t.buffer_idx + 1] = input,
                             !.buffer_idx = (t.buffer_idx + 1) % t.max_delay],
        output |-> QAdd(QMul(t.input_coeff, input),
                        QMul(t.delay_coeff, TVDDelayOutput(t, input, delay))),
        failed |-> FALSE]

(* next has no return statement: what the caller receives is whatever the  *)
(* build leaves in the return register, the computed output or not         *)
TVDReturned(output) == {output, QZero}

(* The values delay_stream may hand over: halves from -1/2 to max + 1/2 *)
DelayValues(max_delay) == {QNorm(k, 2) : k \in (-1)..(2 * max_delay + 1)}

(* One iteration of the while loop of process:                             *)
(* out_stream(next(input, delay_stream()))                                 *)
TVDProcessRead ==
  /\ pc = "tvd_read"
  /\ LET r == ReadNext(srcs[1])
     IN  /\ srcs' = <<r.stream>>
         /\ IF ~r.has
            THEN /\ pc' = "tvd_flush"
                 /\ UNCHANGED <<filt, sinks, log>>
            ELSE \E delay \in DelayValues(filt.max_delay) :
                   LET n == TVDNext(filt, r.value, delay)
                       call == [input |-> r.value, delay |-> delay,
                                output |-> n.output, failed |-> n.failed]
                   IN  /\ log' = Append(log, call)
                       /\ IF n.failed
                          THEN /\ pc' = "assert_failed"
                               /\ UNCHANGED <<filt, sinks>>
                          ELSE /\ filt' = n.unit
                               /\ \E returned \in TVDReturned(n.output) :
                                    sinks' = <<WriteNext(sinks[1], returned)>>
                               /\ pc' = "tvd_read"
  /\ UNCHANGED <<cnt, ntr>>

(* One iteration of the for loop: out_stream(next({}, delay_stream()))     *)
(* while i < max_delay                                                     *)
TVDProcessFlush ==
  /\ pc = "tvd_flush"
  /\ IF FlushBound(cnt, filt.max_delay)
     THEN \E delay \in DelayValues(filt.max_delay) :
            LET n == TVDNext(filt, QZero, delay)
                call == [input |-> QZero, delay |-> delay,
                         output |-> n.output, failed |-> n.failed]
            IN  /\ log' = Append(log, call)
                /\ IF n.failed
                   THEN /\ pc' = "assert_failed"
                        /\ UNCHANGED <<filt, sinks, cnt>>
                   ELSE /\ filt' = n.unit
                        /\ \E returned \in TVDReturned(n.output) :
                             sinks' = <<WriteNext(sinks[1], returned)>>
                        /\ cnt' = cnt + 1
                        /\ pc' = "tvd_flush"
     ELSE /\ pc' = "done"
          /\ UNCHANGED <<filt, sinks, log, cnt>>
  /\ UNCHANGED <<srcs, ntr>>

TVDInit ==
  /\ srcs \in {<<STLVectorInputSignal(x)>> : x \in VecInputs}
  /\ sinks = <<(<<>>)>>
  /\ cnt = 0
  /\ ntr = 0
  /\ log = <<>>
  /\ filt \in {TimeVaryingDelayLine(m, a, b) :
                 m \in 1..MaxDelay, a \in {Q(1), Q(2)}, b \in {Q(1), Q(-1)}}
  /\ pc = "tvd_read"

TVDNextStep ==
  \/ TVDProcessRead
  \/ TVDProcessFlush

SpecTVD == TVDInit /\ [][TVDNextStep]_vars

(* C13: every value process forwards to the output stream is the value     *)
(* input_coeff*x + delay_coeff*delay_output that the call of next computed *)
C13_NextReturnsComputedOutput ==
  filt.kind = "tvd" =>
    \A n \in 1..Len(sinks[1]) : sinks[1][n] = log[n].output

(* C14: a call of next fails an assert exactly when its delay lies outside *)
(* [0, max_delay]; a delay of max_delay itself is accepted.                *)
C14_DelayRangeAccepted ==
  filt.kind = "tvd" =>
    \A n \in 1..Len(log) :
      log[n].failed <=>
        (QLess(log[n].delay, Q(0)) \/ QLess(Q(filt.max_delay), log[n].delay))

(* The input pushed d calls before call n (0-based n), 0 before the first *)
TVDInputAt(n) == IF n >= 1 /\ n <= Len(log) THEN log[n].input ELSE QZero

(* C15: a call n whose delay is an integer m with 0 <= m < max_delay       *)
(* computes input_coeff*x[n] + delay_coeff*x[n-m].                         *)
C15_IntegerDelayTap ==
  filt.kind = "tvd" =>
    \A n \in 1..Len(log) :
      (~log[n].failed /\ log[n].delay[2] = 1) =>
        log[n].output =
          QAdd(QMul(filt.input_coeff, log[n].input),
               QMul(filt.delay_coeff, TVDInputAt(n - log[n].delay[1])))

----------------------------------------------------------------------------
(* signal_stream.hpp: SingleChannelOwned, and read_next called over and    *)
(* over on a source of each kind. sinks[i] collects what source i returns. *)

SingleChannelOwned(buffer) == [buffer |-> buffer, buffer_idx |-> 0, reads |-> 0]

OwnedReadNext(s) ==
  IF s.buffer_idx >= Len(s.buffer)
  THEN [stream |-> [s EXCEPT !.reads = @ + 1], has |-> FALSE, value |-> QZero]
  ELSE [stream |-> [s EXCEPT !.buffer_idx = @ + 1, !.reads = @ + 1],
        has |-> TRUE, value |-> s.buffer[s.buffer_idx + 1]]

SourceInit ==
  /\ srcs \in {<<STLVectorInputSignal(x), SingleChannelOwned(y)>> :
                 x \in Inputs, y \in Inputs}
  /\ sinks = <<(<<>>), (<<>>)>>
  /\ filt = [kind |-> "none"]
  /\ cnt = 0
  /\ ntr = 0
  /\ log = <<>>
  /\ pc = "reading"

(* A caller calls read_next of the vector source *)
VectorSourceRead ==
  /\ pc = "reading"
  /\ srcs[1].reads < Len(srcs[1].input) + MaxExtraReads
  /\ LET r == ReadNext(srcs[1])
     IN  /\ srcs' = [srcs EXCEPT ![1] = r.stream]
         /\ sinks' = [sinks EXCEPT ![1] = Append(@, [has |-> r.has, value |-> r.value])]
  /\ UNCHANGED <<filt, cnt, ntr, log, pc>>

(* A caller calls read_next of the owned-buffer source *)
OwnedSourceRead ==
  /\ pc = "reading"
  /\ srcs[2].reads < Len(srcs[2].buffer) + MaxExtraReads
  /\ LET r == OwnedReadNext(srcs[2])
     IN  /\ srcs' = [srcs EXCEPT ![2] = r.stream]
         /\ sinks' = [sinks EXCEPT ![2] = Append(@, [has |-> r.has, value |-> r.value])]
  /\ UNCHANGED <<filt, cnt, ntr, log, pc>>

SourceNextStep ==
  \/ VectorSourceRead
  \/ OwnedSourceRead

SpecSource == SourceInit /\ [][SourceNextStep]_vars

(* What call k of read_next is to return on a source over the values v *)
ExpectedRead(v, k) ==
  IF k <= Len(v) THEN [has |-> TRUE, value |-> v[k]]
  ELSE [has |-> FALSE, value |-> QZero]

(* C16: on a source over L values, the first L calls of read_next return   *)
(* the values in their order and call L+1 and every later call return      *)
(* None, for both kinds of source.                                         *)
C16_SourceEndsForGood ==
  pc = "reading" =>
    /\ Len(sinks[1]) = srcs[1].reads
    /\ Len(sinks[2]) = srcs[2].reads
    /\ \A k \in 1..Len(sinks[1]) : sinks[1][k] = ExpectedRead(srcs[1].input, k)
    /\ \A k \in 1..Len(sinks[2]) : sinks[2][k] = ExpectedRead(srcs[2].buffer, k)

(* Both sources were read twice more after their last value *)
C16_Witness ==
  /\ pc = "reading"
  /\ Len(srcs[1].input) >= 2
  /\ Len(srcs[2].buffer) >= 2
  /\ srcs[1].reads = Len(srcs[1].input) + 2
  /\ srcs[2].reads = Len(srcs[2].buffer) + 2

----------------------------------------------------------------------------
(* signal_stream.hpp: SingleOutputOwned over a pre-sized buffer            *)
(* log is the sequence of values write_next was called with.               *)

SingleOutputOwned(buffer) == [kind |-> "owned_sink", buffer |-> buffer, buffer_idx |-> 0]

(* Mutant: a write past the end is dropped without a failure *)
OwnedWriteNextDropping(s, output) ==
  IF ~(s.buffer_idx < Len(s.buffer))
  THEN [stream |-> s, failed |-> FALSE]
  ELSE [stream |-> [s EXCEPT !.buffer[s.buffer_idx + 1] = output,
                             !.buffer_idx = @ + 1],
        failed |-> FALSE]

(* write_next; failed: assert(buffer_idx < buffer.size()) stopped it *)
OwnedWriteNext(s, output) ==
  IF ~(s.buffer_idx < Len(s.buffer))
  THEN [stream |-> s, failed |-> TRUE]
  ELSE [stream |-> [s EXCEPT !.buffer[s.buffer_idx + 1] = output,
                             !.buffer_idx = @ + 1],
        failed |-> FALSE]

WrittenValues == {Q(3), Q(4), Q(5)}

SinkInit ==
  /\ filt \in {SingleOutputOwned(b) : b \in Inputs}
  /\ srcs = <<>>
  /\ sinks = <<>>
  /\ cnt = 0
  /\ ntr = 0
  /\ log = <<>>
  /\ pc = "writing"

(* A caller calls write_next *)
OwnedSinkWrite ==
  /\ pc = "writing"
  /\ \E output \in WrittenValues :
       LET w == OwnedWriteNext(filt, output)
       IN  /\ filt' = w.stream
           /\ log' = Append(log, output)
           /\ pc' = IF w.failed THEN "assert_failed" ELSE "writing"
  /\ UNCHANGED <<srcs, sinks, cnt, ntr>>

SpecSink == SinkInit /\ [][OwnedSinkWrite]_vars

(* C17: on a buffer of length C, call k of write_next (k < C, counted from *)
(* 0) stores its value at position k and changes no other position; a call *)
(* after C values were written fails an assertion and leaves the buffer    *)
(* as it was.                                                              *)
C17_BoundedSinkWrites ==
  [][Len(log') = Len(log) + 1 =>
       LET k      == Len(log)
           output == log'[Len(log')]
       IN  IF k < Len(filt.buffer)
           THEN /\ pc' = "writing"
                /\ filt'.buffer = [filt.buffer EXCEPT ![k + 1] = output]
           ELSE /\ pc' = "assert_failed"
                /\ filt'.buffer = filt.buffer]_vars

(* A buffer of at least two slots was filled and written to once more *)
C17_Witness ==
  /\ pc = "assert_failed"
  /\ filt.kind = "owned_sink"
  /\ Len(filt.buffer) >= 2
  /\ Len(log) = Len(filt.buffer) + 1
  /\ \A k \in 1..Len(filt.buffer) : filt.buffer[k] = log[k]
  /\ log[1] # log[2]

----------------------------------------------------------------------------
(* fft_processing.hpp: PairedInterpolatorDecimator                         *)
(* The 769-tap table of the static member filter is stood for by a short   *)
(* filter.  log holds one record per call of interpolate or decimate,      *)
(* sinks[1] what the calls returned.                                       *)

UpFactor == 4

PairedInterpolatorDecimator(window_size_, filter, nt, os) ==
  [kind |-> "interp_dec",
   convolver |-> OverlapAddConvolver(window_size_, filter, nt, os)]

(* The for loop of interpolate and decimate from i on: convolver.next on   *)
(* each of the inputs in turn, outs the values returned so far             *)
RECURSIVE ConvolverLoop(_, _, _, _, _)
ConvolverLoop(convolver, inputs, i, outs, ub) ==
  IF i > UpFactor \/ ub
  THEN [convolver |-> convolver, outs |-> outs, ub |-> ub]
  ELSE LET n == OLANext(convolver, inputs[i])
       IN  ConvolverLoop(n.unit, inputs, i + 1, Append(outs, n.y), n.ub)

(* out(i) = scale * convolver.next(i == 0 ? xn : {}) *)
interpolate(p, xn) ==
  LET r == ConvolverLoop(p.convolver, [i \in 1..UpFactor |-> IF i = 1 THEN xn ELSE 0],
                         1, <<>>, FALSE)
  IN  [unit |-> [p EXCEPT !.convolver = r.convolver],
       out  |-> IF r.ub THEN <<>> ELSE [i \in 1..UpFactor |-> UpFactor * r.outs[i]],
       ub   |-> r.ub]

(* out = convolver.next(input(i)) for i == UpFactor - 1 only *)
decimate(p, input) ==
  LET r == ConvolverLoop(p.convolver, input, 1, <<>>, FALSE)
  IN  [unit |-> [p EXCEPT !.convolver = r.convolver],
       out  |-> IF r.ub THEN 0 ELSE r.outs[UpFactor],
       ub   |-> r.ub]

InterpDecInit ==
  \E w \in 2..MaxWindow, h \in Filters :
    \E nt \in Indeterminate(Len(h) - 1) :
      \E os \in Indeterminate(w + Len(h) - 1) :
        /\ filt = PairedInterpolatorDecimator(w, h, nt, os)
        /\ srcs = <<>>
        /\ sinks = <<(<<>>)>>
        /\ cnt = 0
        /\ ntr = 0
        /\ log = <<>>
        /\ pc = "idle"

(* A caller calls interpolate *)
InterpDecInterpolate ==
  /\ pc = "idle"
  /\ cnt < MaxRuns
  /\ \E xn \in SampleInts :
       LET r == interpolate(filt, xn)
       IN  /\ log' = Append(log, [op |-> "interpolate", arg |-> xn])
           /\ IF r.ub
              THEN /\ pc' = "undefined"
                   /\ UNCHANGED <<filt, sinks, cnt>>
              ELSE /\ filt' = r.unit
                   /\ sinks' = <<Append(sinks[1], r.out)>>
                   /\ cnt' = cnt + 1
                   /\ pc' = "idle"
  /\ UNCHANGED <<srcs, ntr>>

(* A caller calls decimate *)
InterpDecDecimate ==
  /\ pc = "idle"
  /\ cnt < MaxRuns
  /\ \E input \in [1..UpFactor -> SampleInts] :
       LET r == decimate(filt, input)
       IN  /\ log' = Append(log, [op |-> "decimate", arg |-> input])
           /\ IF r.ub
              THEN /\ pc' = "undefined"
                   /\ UNCHANGED <<filt, sinks, cnt>>
              ELSE /\ filt' = r.unit
                   /\ sinks' = <<Append(sinks[1], r.out)>>
                   /\ cnt' = cnt + 1
                   /\ pc' = "idle"
  /\ UNCHANGED <<srcs, ntr>>

InterpDecNextStep ==
  \/ InterpDecInterpolate
  \/ InterpDecDecimate

SpecInterpDec == InterpDecInit /\ [][InterpDecNextStep]_vars

(* C18: a call of interpolate(x) advances the convolver four times, on x,  *)
(* 0, 0, 0 in this order, and returns the four values next returned, each  *)
(* times 4; a call of decimate(block) advances it four times on block[0],  *)
(* ..., block[3] and returns the value of the fourth advance.              *)
C18_InterpolateDecimateAdvance ==
  [][Len(log') = Len(log) + 1 =>
       LET call   == log'[Len(log')]
           inputs == IF call.op = "interpolate" THEN <<call.arg, 0, 0, 0>> ELSE call.arg
           n1     == OLANext(filt.convolver, inputs[1])
           n2     == OLANext(n1.unit, inputs[2])
           n3     == OLANext(n2.unit, inputs[3])
           n4     == OLANext(n3.unit, inputs[4])
       IN  /\ pc' = "idle"
           /\ filt'.convolver = n4.unit
           /\ sinks'[1] = Append(sinks[1],
                IF call.op = "interpolate"
                THEN <<4 * n1.y, 4 * n2.y, 4 * n3.y, 4 * n4.y>>
                ELSE n4.y)]_vars

----------------------------------------------------------------------------
(* Construction of the comb filters and of the freeverb filter             *)
(*                                                                         *)
(* pc = "construct" is the caller about to run a constructor; log records  *)
(* the constructor call, filt is the object once it exists, and the        *)
(* samples of srcs[1] are then passed to next one by one.                  *)

NotConstructed == [kind |-> "none"]

(* lp_filter(OnePoleLowpassFilter(alpha, beta)) in the member initialisers *)
FFBConstructible(beta) == OnePoleConstructible(beta)

(* make_freeverb_filter builds the lowpass-feedback combs with beta = damp *)
(* and the all-pass approximations with output_coeff = g                   *)
FreeverbConstructible(damp, g) == FFBConstructible(damp) /\ FFFBConstructible(g)

PoleCoeffs == {<<-3, 2>>, Q(-1), <<-1, 2>>, Q(0), <<1, 2>>, Q(1), <<3, 2>>}

ConstructInit ==
  /\ filt = NotConstructed
  /\ srcs \in {<<STLVectorInputSignal(x)>> : x \in Inputs}
  /\ sinks = <<(<<>>)>>
  /\ cnt = 0
  /\ ntr = 0
  /\ log = <<>>
  /\ pc = "construct"

ConstructFFFB ==
  /\ pc = "construct"
  /\ \E b0 \in CombCoeffs, a \in PoleCoeffs, m \in 1..MaxDelay :
       /\ log' = <<[kind |-> "fffb", pole |-> a, g |-> QZero]>>
       /\ IF FFFBConstructible(a)
          THEN /\ filt' = FeedforwardFeedbackCombFilter(b0, Q(1), a, m)
               /\ pc' = "built"
          ELSE /\ pc' = "assert_failed"
               /\ UNCHANGED filt
  /\ UNCHANGED <<srcs, sinks, cnt, ntr>>

ConstructOnePole ==
  /\ pc = "construct"
  /\ \E alpha \in LowpassCoeffs, beta \in PoleCoeffs, ind \in {Q(0), Q(1)} :
       /\ log' = <<[kind |-> "onepole", pole |-> beta, g |-> QZero]>>
       /\ IF OnePoleConstructible(beta)
          THEN /\ filt' = [kind |-> "onepole",
                           unit |-> OnePoleLowpassFilter(alpha, beta, ind)]
               /\ pc' = "built"
          ELSE /\ pc' = "assert_failed"
               /\ UNCHANGED filt
  /\ UNCHANGED <<srcs, sinks, cnt, ntr>>

ConstructFFB ==
  /\ pc = "construct"
  /\ \E alpha \in LowpassCoeffs, beta \in PoleCoeffs, m \in 1..MaxDelay,
        ind \in {Q(0), Q(1)} :
       /\ log' = <<[kind |-> "ffb", pole |-> beta, g |-> QZero]>>
       /\ IF FFBConstructible(beta)
          THEN /\ filt' = FilteredFeedbackCombFilter(alpha, beta, m, ind)
               /\ pc' = "built"
          ELSE /\ pc' = "assert_failed"
               /\ UNCHANGED filt
  /\ UNCHANGED <<srcs, sinks, cnt, ntr>>

ConstructFreeverb ==
  /\ pc = "construct"
  /\ \E damp \in {Q(0), Q(1), <<-3, 2>>}, g \in {<<1, 2>>, Q(-1), <<3, 2>>} :
       /\ log' = <<[kind |-> "freeverb", pole |-> damp, g |-> g]>>
       /\ IF FreeverbConstructible(damp, g)
          THEN /\ filt' = [kind |-> "freeverb",
                           unit |-> make_freeverb_filter(stereo_spread, Q(0), Q(1),
                                      Q(0), damp, <<1, 2>>, g, Q(0))]
               /\ pc' = "built"
          ELSE /\ pc' = "assert_failed"
               /\ UNCHANGED filt
  /\ UNCHANGED <<srcs, sinks, cnt, ntr>>

(* The next sample of srcs[1] is passed to next of the constructed filter  *)
(* (both channels of the freeverb filter get the same sample)              *)
ConstructedNext ==
  /\ pc = "built"
  /\ LET r == ReadNext(srcs[1])
     IN  /\ srcs' = <<r.stream>>
         /\ IF ~r.has
            THEN /\ pc' = "done"
                 /\ UNCHANGED <<filt, sinks>>
            ELSE IF filt.kind = "onepole"
            THEN LET n == OnePoleNext(filt.unit, r.value)
                 IN  /\ filt' = [filt EXCEPT !.unit = n.unit]
                     /\ sinks' = <<WriteNext(sinks[1], n.y)>>
                     /\ pc' = "built"
            ELSE IF filt.kind = "freeverb"
            THEN LET n == MIMONext(filt.unit, <<r.value, r.value>>)
                 IN  IF n.ub
                     THEN /\ pc' = "undefined"
                          /\ UNCHANGED <<filt, sinks>>
                     ELSE /\ filt' = [filt EXCEPT !.unit = n.unit]
                          /\ sinks' = <<WriteNext(sinks[1], n.y[1])>>
                          /\ pc' = "built"
            ELSE LET n == UnitNext(filt, r.value)
                 IN  IF n.ub
                     THEN /\ pc' = "undefined"
                          /\ UNCHANGED <<filt, sinks>>
                     ELSE /\ filt' = n.unit
                          /\ sinks' = <<WriteNext(sinks[1], n.y)>>
                          /\ pc' = "built"
  /\ UNCHANGED <<cnt, ntr, log>>

ConstructNextStep ==
  \/ ConstructFFFB
  \/ ConstructOnePole
  \/ ConstructFFB
  \/ ConstructFreeverb
  \/ ConstructedNext

SpecConstruct == ConstructInit /\ [][ConstructNextStep]_vars

(* The stability bound -1 < c < 1 *)
InsideUnitCircle(c) == QLess(Q(-1), c) /\ QLess(c, Q(1))

(* C21: a constructor call whose feedback coefficient a (comb), beta (one  *)
(* pole, filtered comb), damp or g (freeverb) has magnitude >= 1 fails an  *)
(* assertion, no object exists and no sample has been read or written;     *)
(* with every such coefficient of magnitude < 1 the object is constructed. *)
C21_UnstableConstructionAsserts ==
  Len(log) > 0 =>
    IF InsideUnitCircle(log[1].pole) /\ InsideUnitCircle(log[1].g)
    THEN pc # "assert_failed" /\ filt.kind = log[1].kind
    ELSE /\ pc = "assert_failed"
         /\ filt = NotConstructed
         /\ sinks = <<(<<>>)>>
         /\ srcs[1].reads = 0

C21_Witness ==
  /\ pc = "assert_failed"
  /\ Len(log) > 0
  /\ log[1].kind = "ffb"
  /\ log[1].pole = Q(1)

----------------------------------------------------------------------------
(* Two primitives of the same kind constructed with identical parameters   *)
(* and fed the same samples: filt and sinks hold one entry per object.     *)
(* The value prev_output starts with is chosen per object.                 *)

TwinInit ==
  /\ srcs \in {<<STLVectorInputSignal(x)>> : x \in Inputs}
  /\ sinks = <<(<<>>), (<<>>)>>
  /\ cnt = 0
  /\ ntr = 0
  /\ log = <<>>
  /\ pc = "built"
  /\ \/ \E alpha \in LowpassCoeffs, beta \in {c \in PoleCoeffs : OnePoleConstructible(c)},
           i1 \in {Q(0), Q(1)}, i2 \in {Q(0), Q(1)} :
          filt = <<[kind |-> "onepole", unit |-> OnePoleLowpassFilter(alpha, beta, i1)],
                   [kind |-> "onepole", unit |-> OnePoleLowpassFilter(alpha, beta, i2)]>>
     \/ \E alpha \in LowpassCoeffs, beta \in {c \in PoleCoeffs : FFBConstructible(c)},
           m \in 1..MaxDelay, i1 \in {Q(0), Q(1)}, i2 \in {Q(0), Q(1)} :
          filt = <<FilteredFeedbackCombFilter(alpha, beta, m, i1),
                   FilteredFeedbackCombFilter(alpha, beta, m, i2)>>
     \/ \E b0 \in CombCoeffs, a \in {c \in PoleCoeffs : FFFBConstructible(c)},
           m \in 1..MaxDelay :
          filt = <<FeedforwardFeedbackCombFilter(b0, Q(1), a, m),
                   FeedforwardFeedbackCombFilter(b0, Q(1), a, m)>>

(* next of one of the two objects *)
TwinUnitNext(u, x) ==
  IF u.kind = "onepole"
  THEN LET n == OnePoleNext(u.unit, x)
       IN  [unit |-> [u EXCEPT !.unit = n.unit], y |-> n.y, ub |-> FALSE]
  ELSE UnitNext(u, x)

(* The next sample is passed to next of both objects *)
TwinNext ==
  /\ pc = "built"
  /\ LET r  == ReadNext(srcs[1])
         n1 == TwinUnitNext(filt[1], r.value)
         n2 == TwinUnitNext(filt[2], r.value)
     IN  /\ srcs' = <<r.stream>>
         /\ IF ~r.has
            THEN /\ pc' = "done"
                 /\ UNCHANGED <<filt, sinks, log>>
            ELSE IF n1.ub \/ n2.ub
            THEN /\ pc' = "undefined"
                 /\ UNCHANGED <<filt, sinks, log>>
            ELSE /\ filt' = <<n1.unit, n2.unit>>
                 /\ sinks' = <<WriteNext(sinks[1], n1.y), WriteNext(sinks[2], n2.y)>>
                 /\ log' = Append(log, r.value)
                 /\ pc' = "built"
  /\ UNCHANGED <<cnt, ntr>>

SpecTwin == TwinInit /\ [][TwinNext]_vars

(* C22: two freshly constructed primitives of the same kind with the same  *)
(* parameters, fed the same input sequence, return the same output         *)
(* sequence from the first call on, and every call has a defined result.   *)
C22_TwinOutputsEqual ==
  /\ sinks[1] = sinks[2]
  /\ pc # "undefined"

----------------------------------------------------------------------------
(* The iterations of the loop of MIMOIIRFilter::next as tasks of the       *)
(* `omp parallel for`, and the iterations of the loop of                   *)
(* ParallelCombination::next taken in any order.                           *)
(*                                                                         *)
(* filt is the host (its children are advanced in place), srcs[1] the      *)
(* argument of the call in progress, sinks[1] the values returned so far,  *)
(* cnt the number of completed calls.  log keeps the host as it was when   *)
(* the call was entered, the local vector out, each task's position and    *)
(* pending result, and the order in which the tasks called next.           *)

HostChildren(h) == IF h.kind = "mimo" THEN h.filters ELSE h.units

(* input(i) in MIMOIIRFilter::next, the captured input in ParallelCombination *)
TaskInput(h, input, i) == IF h.kind = "mimo" THEN input[i] ELSE input

(* Mutant: every task stores its result in the first slot *)
TaskSlotShared(i) == 1

(* out(i) = ... : the slot task i stores its result in (1-based) *)
TaskSlot(i) == i

(* The return expression of next, from the local vector out *)
HostCombine(h, input, out) ==
  IF h.kind = "mimo"
  THEN [r \in 1..Len(h.output_lt) |->
          QAdd(QMul(h.input_scale, input[r]), RowDot(h.output_lt[r], out, 1))]
  ELSE ParallelSum(h.lt, [i \in 1..Len(out) |-> [y |-> out[i]]], 1)

WithChild(h, i, u) ==
  IF h.kind = "mimo" THEN [h EXCEPT !.filters[i] = u] ELSE [h EXCEPT !.units[i] = u]

TaskHosts ==
  {MIMOIIRFilter(Q(1), lt, <<f1, f2>>) :
     lt \in OutputLTs, f1 \in ChildFilters, f2 \in ChildFilters}
  \cup
  {ParallelCombination(<<u1, u2>>, <<w1, w2>>) :
     u1 \in ParallelUnits, u2 \in ParallelUnits, w1 \in Weights, w2 \in Weights}

TaskArguments(h) ==
  IF h.kind = "mimo" THEN [1..Len(h.filters) -> Samples] ELSE Samples

TasksInit ==
  /\ filt \in TaskHosts
  /\ srcs = <<>>
  /\ sinks = <<(<<>>)>>
  /\ cnt = 0
  /\ ntr = 0
  /\ log = <<>>
  /\ pc = "idle"

(* Entry of next: the local vector is allocated (Eigen leaves it           *)
(* uninitialised) and one task per child is started                        *)
TaskFork ==
  /\ pc = "idle"
  /\ cnt < MaxRuns
  /\ \E input \in TaskArguments(filt), junk \in {Q(0), Q(7)} :
       /\ srcs' = <<input>>
       /\ log' = [entry |-> filt,
                  out   |-> [i \in 1..Len(HostChildren(filt)) |-> junk],
                  at    |-> [i \in 1..Len(HostChildren(filt)) |-> "start"],
                  ret   |-> [i \in 1..Len(HostChildren(filt)) |-> QZero],
                  order |-> <<>>]
  /\ pc' = "forked"
  /\ UNCHANGED <<filt, sinks, cnt, ntr>>

(* Task i evaluates filters[i]->next(input(i)) *)
TaskAdvance ==
  /\ pc = "forked"
  /\ \E i \in 1..Len(HostChildren(filt)) :
       /\ log.at[i] = "start"
       /\ LET r == UnitNext(HostChildren(filt)[i], TaskInput(filt, srcs[1], i))
          IN  IF r.ub
              THEN /\ pc' = "undefined"
                   /\ UNCHANGED <<filt, log>>
              ELSE /\ filt' = WithChild(filt, i, r.unit)
                   /\ log' = [log EXCEPT !.at[i] = "store", !.ret[i] = r.y,
                                         !.order = Append(@, i)]
                   /\ pc' = "forked"
  /\ UNCHANGED <<srcs, sinks, cnt, ntr>>

(* Task i assigns its result to out(i) *)
TaskStore ==
  /\ pc = "forked"
  /\ \E i \in 1..Len(HostChildren(filt)) :
       /\ log.at[i] = "store"
       /\ log' = [log EXCEPT !.at[i] = "joined", !.out[TaskSlot(i)] = log.ret[i]]
  /\ UNCHANGED <<filt, srcs, sinks, pc, cnt, ntr>>

(* All tasks have joined: next returns *)
TaskJoin ==
  /\ pc = "forked"
  /\ \A i \in 1..Len(HostChildren(filt)) : log.at[i] = "joined"
  /\ sinks' = <<Append(sinks[1], HostCombine(filt, srcs[1], log.out))>>
  /\ cnt' = cnt + 1
  /\ pc' = "idle"
  /\ UNCHANGED <<filt, srcs, ntr, log>>

TasksNextStep == TaskFork \/ TaskAdvance \/ TaskStore \/ TaskJoin

SpecTasks == TasksInit /\ [][TasksNextStep]_vars

(* next with its iterations run one after the other in index order *)
SequentialNext(h, input) ==
  IF h.kind = "mimo" THEN MIMONext(h, input) ELSE ParallelNext(h, input)

(* C26: whatever the order and interleaving of the per-child tasks, a call *)
(* of next returns the value, and leaves the children in the states, that  *)
(* running the iterations sequentially in index order gives.               *)
C26_TasksCommute ==
  /\ pc # "undefined"
  /\ (pc = "idle" /\ cnt > 0) =>
       LET seq == SequentialNext(log.entry, srcs[1])
       IN  /\ sinks[1][cnt] = seq.y
           /\ filt = seq.unit

C26_Witness ==
  /\ pc = "idle"
  /\ cnt = MaxRuns
  /\ filt.kind = "mimo"
  /\ log.order = <<2, 1>>
  /\ filt.filters[1] # filt.filters[2]

----------------------------------------------------------------------------
(* Two runs of a PairedInterpolatorDecimator, as TubePreAmpClassA::next    *)
(* drives it: both runs pass the same samples to interpolate, and each     *)
(* passes its own blocks to decimate.  filt holds the object of each run,  *)
(* sinks the blocks interpolate returned in each run, log the samples      *)
(* passed to interpolate.                                                  *)

DecimateBlocks == {[i \in 1..UpFactor |-> IF i <= k THEN 1 ELSE 2] : k \in 0..UpFactor}

InterpTwinInit ==
  \E w \in 2..MaxWindow, h \in {f \in Filters : Len(f) <= 2} :
    \E nt \in Indeterminate(Len(h) - 1) \X Indeterminate(Len(h) - 1) :
      \E os \in Indeterminate(w + Len(h) - 1) \X Indeterminate(w + Len(h) - 1) :
        /\ filt = <<PairedInterpolatorDecimator(w, h, nt[1], os[1]),
                    PairedInterpolatorDecimator(w, h, nt[2], os[2])>>
        /\ srcs = <<>>
        /\ sinks = <<(<<>>), (<<>>)>>
        /\ cnt = 0
        /\ ntr = 0
        /\ log = <<>>
        /\ pc = "idle"

(* interp_dec.interpolate(xn) in both runs *)
InterpTwinInterpolate ==
  /\ pc = "idle"
  /\ cnt < 2 * MaxRuns
  /\ \E xn \in SampleInts :
       LET r1 == interpolate(filt[1], xn)
           r2 == interpolate(filt[2], xn)
       IN  /\ log' = Append(log, xn)
           /\ IF r1.ub \/ r2.ub
              THEN /\ pc' = "undefined"
                   /\ UNCHANGED <<filt, sinks, cnt>>
              ELSE /\ filt' = <<r1.unit, r2.unit>>
                   /\ sinks' = <<Append(sinks[1], r1.out), Append(sinks[2], r2.out)>>
                   /\ cnt' = cnt + 1
                   /\ pc' = "idle"
  /\ UNCHANGED <<srcs, ntr>>

(* interp_dec.decimate(out): each run passes its own block *)
InterpTwinDecimate ==
  /\ pc = "idle"
  /\ cnt < 2 * MaxRuns
  /\ \E b1 \in DecimateBlocks, c \in SampleInts :
       LET r1 == decimate(filt[1], b1)
           r2 == decimate(filt[2], [i \in 1..UpFactor |-> c])
       IN  IF r1.ub \/ r2.ub
           THEN /\ pc' = "undefined"
                /\ UNCHANGED <<filt, cnt>>
           ELSE /\ filt' = <<r1.unit, r2.unit>>
                /\ cnt' = cnt + 1
                /\ pc' = "idle"
  /\ UNCHANGED <<srcs, sinks, ntr, log>>

InterpTwinNextStep == InterpTwinInterpolate \/ InterpTwinDecimate

SpecInterpTwin == InterpTwinInit /\ [][InterpTwinNextStep]_vars

(* C27: in two runs that pass the same samples to interpolate and          *)
(* different blocks to decimate, every call has a defined result and the   *)
(* blocks returned by interpolate are the same in both runs.               *)
C27_InterpolateIgnoresDecimate ==
  /\ pc # "undefined"
  /\ sinks[1] = sinks[2]

----------------------------------------------------------------------------
(* flange.hpp: SinusoidalDelay, Flanger, TwoChannelFlanger                 *)
(*                                                                         *)
(* speed * sample_period is a multiple of 1/4, so that the argument of sin *)
(* is a whole number of quarter turns and its value is 0, 1, 0 or -1.      *)

SinusoidalDelay(average_delay, sweep, speed, sample_period) ==
  [average_delay |-> average_delay, sweep |-> sweep, speed |-> speed,
   sample_period |-> sample_period, delay_idx |-> 0]

(* The four asserts of the constructor *)
SinusoidalDelayConstructible(average_delay, sweep, speed, sample_period) ==
  /\ QLess(QZero, average_delay)
  /\ QLess(QZero, speed)
  /\ QLess(QZero, sample_period)
  /\ ~QLess(sweep, Q(-1)) /\ ~QLess(Q(1), sweep)

(* sin(2 * pi * turns) for turns a multiple of 1/4 *)
SinTurns(turns) ==
  LET quarters == QMul(Q(4), turns)[1] % 4
  IN  CASE quarters = 0 -> 0
        [] quarters = 1 -> 1
        [] quarters = 2 -> 0
        [] quarters = 3 -> -1

(* operator(): the delay for sample delay_idx, and the object afterwards *)
SinusoidalDelayCall(d) ==
  LET turns == QMul(QMul(d.speed, Q(d.delay_idx)), d.sample_period)
  IN  [delay |-> QMul(d.average_delay,
                      QAdd(Q(1), QMul(d.sweep, Q(SinTurns(turns))))),
       unit  |-> [d EXCEPT !.delay_idx = @ + 1]]

(* ceil of a rational *)
QCeil(a) == -((-a[1]) \div a[2])

(* static_cast<int>(ceil(average_delay * (1.0 + sweep))) *)
max_delay(d) == QCeil(QMul(d.average_delay, QAdd(Q(1), d.sweep)))

Flanger(depth, invert_phase, delay) ==
  [depth |-> depth, invert_phase |-> invert_phase, delay |-> delay,
   delay_line |-> TimeVaryingDelayLine(max_delay(delay), Q(1),
                    IF invert_phase THEN QMul(Q(-1), depth) ELSE depth)]

(* next(input, delay_stream()) as process of the delay line calls it: the  *)
(* argument delay_stream() is evaluated first                              *)
FlangerNext(f, input) ==
  LET d == SinusoidalDelayCall(f.delay)
      n == TVDNext(f.delay_line, input, d.delay)
  IN  [unit   |-> [f EXCEPT !.delay = d.unit,
                            !.delay_line = IF n.failed THEN @ ELSE n.unit],
       delay  |-> d.delay,
       output |-> n.output,
       failed |-> n.failed]

(* TwoChannelFlanger::process.  srcs[c] is the vector read by channel c    *)
(* with the index of its read callback, sinks[c] the vector written with   *)
(* the index of its write callback, ntr the channel being processed, cnt   *)
(* the counter of the flush loop; log records every call of a callback or  *)
(* of the delay function.                                                  *)

FlangerAverages == {Q(1), <<3, 2>>, Q(2)}

FlangerSweeps == {Q(-1), <<-1, 2>>, Q(0), <<1, 2>>, Q(1)}

FlangerInit ==
  \E avg \in FlangerAverages, sweep \in FlangerSweeps, speed \in {Q(1), Q(3)},
     invert \in BOOLEAN, l \in VecInputs, r \in VecInputs, extra \in {0, MaxDelay + 2} :
    /\ SinusoidalDelayConstructible(avg, sweep, speed, <<1, 4>>)
    /\ Len(l) = Len(r)
    /\ filt = <<Flanger(Q(1), invert, SinusoidalDelay(avg, sweep, speed, <<1, 4>>)),
                Flanger(Q(1), invert, SinusoidalDelay(avg, sweep, speed, <<1, 4>>))>>
    /\ srcs = <<[buffer |-> l, idx |-> 0], [buffer |-> r, idx |-> 0]>>
    /\ sinks = <<[buffer |-> Zeros(Len(l) + extra), idx |-> 0],
                 [buffer |-> Zeros(Len(r) + extra), idx |-> 0]>>
    /\ cnt = 0
    /\ ntr = 1
    /\ log = <<>>
    /\ pc = "fl_read"

(* The write callback: l_write[l_write_idx] = output; ++l_write_idx *)
FlangerWrite(w, output) ==
  [w EXCEPT !.buffer[w.idx + 1] = output, !.idx = @ + 1]

(* One iteration of the while loop or of the for loop of                   *)
(* TimeVaryingDelayLine::process, driven by the callbacks of channel ntr.  *)
(* The read callback returns l_read[l_read_idx] converted to an engaged    *)
(* optional, so the break of the while loop is never taken.                *)
FlangerProcessStep ==
  /\ pc \in {"fl_read", "fl_flush"}
  /\ LET c == ntr
     IN
     IF pc = "fl_read"
     THEN IF srcs[c].idx >= Len(srcs[c].buffer)
          THEN /\ log' = Append(log, [op |-> "read", chan |-> c, idx |-> srcs[c].idx,
                                      delay |-> QZero])
               /\ pc' = "undefined"
               /\ UNCHANGED <<filt, srcs, sinks, cnt, ntr>>
          ELSE LET input == srcs[c].buffer[srcs[c].idx + 1]
                   n     == FlangerNext(filt[c], input)
               IN  /\ srcs' = [srcs EXCEPT ![c].idx = @ + 1]
                   /\ log' = log \o <<[op |-> "read", chan |-> c, idx |-> srcs[c].idx,
                                       delay |-> QZero],
                                      [op |-> "delay", chan |-> c, idx |-> filt[c].delay.delay_idx,
                                       delay |-> n.delay]>>
                   /\ filt' = [filt EXCEPT ![c] = n.unit]
                   /\ IF n.failed
                      THEN /\ pc' = "assert_failed"
                           /\ UNCHANGED sinks
                      ELSE IF sinks[c].idx >= Len(sinks[c].buffer)
                      THEN /\ pc' = "undefined"
                           /\ UNCHANGED sinks
                      ELSE /\ \E returned \in TVDReturned(n.output) :
                                sinks' = [sinks EXCEPT ![c] = FlangerWrite(@, returned)]
                           /\ pc' = "fl_read"
                   /\ UNCHANGED <<cnt, ntr>>
     ELSE IF FlushBound(cnt, filt[c].delay_line.max_delay)
          THEN LET n == FlangerNext(filt[c], QZero)
               IN  /\ log' = Append(log, [op |-> "delay", chan |-> c,
                                          idx |-> filt[c].delay.delay_idx,
                                          delay |-> n.delay])
                   /\ filt' = [filt EXCEPT ![c] = n.unit]
                   /\ IF n.failed
                      THEN /\ pc' = "assert_failed"
                           /\ UNCHANGED <<sinks, cnt>>
                      ELSE IF sinks[c].idx >= Len(sinks[c].buffer)
                      THEN /\ pc' = "undefined"
                           /\ UNCHANGED <<sinks, cnt>>
                      ELSE /\ \E returned \in TVDReturned(n.output) :
                                sinks' = [sinks EXCEPT ![c] = FlangerWrite(@, returned)]
                           /\ cnt' = cnt + 1
                           /\ pc' = "fl_flush"
                   /\ UNCHANGED <<srcs, ntr>>
          ELSE /\ IF c = 1
                  THEN ntr' = 2 /\ cnt' = 0 /\ pc' = "fl_read"
                  ELSE pc' = "done" /\ UNCHANGED <<cnt, ntr>>
               /\ UNCHANGED <<filt, srcs, sinks, log>>

SpecFlanger == FlangerInit /\ [][FlangerProcessStep]_vars

(* C28: every delay value m[n] a constructed SinusoidalDelay hands to the  *)
(* delay line satisfies floor(m[n]) >= 0 and floor(m[n]) + 1 <= max_delay, *)
(* so no call of next fails the delay-range assertion.                     *)
C28_SinusoidalDelayInRange ==
  /\ pc # "assert_failed"
  /\ \A k \in 1..Len(log) :
       log[k].op = "delay" =>
         /\ QFloor(log[k].delay) >= 0
         /\ QFloor(log[k].delay) + 1 <= max_delay(filt[log[k].chan].delay)

(* C29: no read callback reads at index L or beyond; once process has      *)
(* returned, each channel has read its L samples and written L + max_delay *)
(* values.                                                                 *)
C29_FlangerProcessTerminates ==
  /\ \A k \in 1..Len(log) :
       log[k].op = "read" => log[k].idx < Len(srcs[log[k].chan].buffer)
  /\ pc # "undefined"
  /\ pc = "done" =>
       \A c \in 1..2 : /\ srcs[c].idx = Len(srcs[c].buffer)
                       /\ sinks[c].idx = Len(srcs[c].buffer) + filt[c].delay_line.max_delay

----------------------------------------------------------------------------
(* Two runs of a freeverb filter built with wet2 = 0: the same left input  *)
(* in both; the right input equals the left one in run 1, as in            *)
(* test_freeverb, and is any other input in run 2.  filt holds the filter of *)
(* each run, log the inputs <<left, right of run 1, right of run 2>>,      *)
(* sinks the left outputs of each run, cnt the number of calls of next.    *)
(* Each run constructs its own filter, so the value prev_output starts     *)
(* with is chosen per run.                                                 *)

FreeverbTwinInit ==
  \E dry \in {Q(0), Q(1)}, damp \in {Q(0), <<1, 2>>},
     i1 \in {Q(0), Q(1)}, i2 \in {Q(0), Q(1)},
     l \in RampInputs, r2 \in VecInputs :
    /\ Len(r2) = Len(l)
    /\ filt = <<make_freeverb_filter(stereo_spread, dry, Q(1), Q(0), damp, <<1, 2>>, <<1, 2>>, i1),
                make_freeverb_filter(stereo_spread, dry, Q(1), Q(0), damp, <<1, 2>>, <<1, 2>>, i2)>>
    /\ log = <<l, l, r2>>
    /\ srcs = <<>>
    /\ sinks = <<(<<>>), (<<>>)>>
    /\ cnt = 0
    /\ ntr = 0
    /\ pc = "built"

(* next on the vector (left, right) of each run *)
FreeverbTwinNext ==
  /\ pc = "built"
  /\ cnt < Len(log[1])
  /\ LET n1 == MIMONext(filt[1], <<log[1][cnt + 1], log[2][cnt + 1]>>)
         n2 == MIMONext(filt[2], <<log[1][cnt + 1], log[3][cnt + 1]>>)
     IN  IF n1.ub \/ n2.ub
         THEN /\ pc' = "undefined"
              /\ UNCHANGED <<filt, sinks, cnt>>
         ELSE /\ filt' = <<n1.unit, n2.unit>>
              /\ sinks' = <<Append(sinks[1], n1.y[1]), Append(sinks[2], n2.y[1])>>
              /\ cnt' = cnt + 1
              /\ pc' = "built"
  /\ UNCHANGED <<srcs, ntr, log>>

SpecFreeverbTwin == FreeverbTwinInit /\ [][FreeverbTwinNext]_vars

(* C30: with wet2 = 0, two runs with the same left input and different     *)
(* right inputs give the same left output at every step.                   *)
C30_LeftIgnoresRight ==
  /\ pc # "undefined"
  /\ sinks[1] = sinks[2]

====
